---- MODULE Spec2Model ----
(***************************************************************************)
(* Bot runtime of zunnuran/discord-bot: the notification scheduler         *)
(* (server/services/discord-bot.ts, server/storage.ts) and the forwarder   *)
(* cache.                                                                  *)
(*                                                                         *)
(* Time is a count of clock units since midnight of Sunday 2023-01-01 in   *)
(* the server's zone (no daylight saving).  A minute is UnitsPerMin units, *)
(* a day is MinsPerDay minutes: the calendar is scaled down, its shape     *)
(* (sub-minute instants, minutes, days, weekdays, months) is kept.         *)
(* A nullable column is a sequence of length 0 (null) or 1.                *)
(***************************************************************************)
EXTENDS Integers, Sequences, FiniteSets, Bags, TLC

VARIABLES
    now,            \* the wall clock, what new Date() returns
    rows,           \* table notifications: id -> row
    settings,       \* bot_settings.workingDays: NULL (absent) or <<set of weekdays>>
    logs,           \* table notification_logs: bag of [notificationId, status]
    sent,           \* messages delivered to Discord: bag of notification ids
    pc,             \* per processNotifications run: "idle", "settings", "rows"
    due,            \* per run: dueNotifications still to be processed (row snapshots)
    wdays,          \* per run: const workingDays
    today,          \* per run: const today
    fwdTable,       \* table forwarders joined with its source channel: id -> row
    heap,           \* the arrays the forwarder code holds: reference -> sequence of rows
    forwarderCache, \* this.forwarderCache: key -> reference of the array stored under it
    loads,          \* per loadForwarders call: idle, or what getActiveForwarders will return
    handlers,       \* per handleMessageForwarding call: its message and locals
    received,       \* number of MessageCreate events so far
    fwdLogs,        \* table forwarder_logs: bag of [forwarderId, status]
    inbox,          \* the messages of the MessageCreate events so far, in order
    forwarded,      \* messages sent to a destination: bag of [forwarderId, channel]
    installed,      \* history: the cache of the result the last rebuild was made from
    content,        \* message.content of the message a rule is evaluated on
    keywords,       \* forwarder.keywords of that rule
    matchType,      \* forwarder.matchType of that rule
    matchPc,        \* "off", "input" (before the evaluation) or "done"
    matchedKeyword, \* const matchedKeyword, NULL when the rule is passed over
    guildChannels,  \* the guild on the platform: channel id -> kind
    serverRow,      \* the guild's row of discord_servers: NULL or <<row>>
    channelRows,    \* the server's rows of discord_channels: discordId -> row
    syncs,          \* per syncServer call: its position and locals
    syncRuns,       \* number of syncServer calls so far; the clock of updatedAt
    cleanRuns,      \* history: 1 once a call ran undisturbed and the guild is as it was then
    marks,          \* per markServerDisconnected call: its position and locals
    serverSeq,      \* the identity sequence of discord_servers.id
    token,          \* process.env.DISCORD_BOT_TOKEN is set
    client,         \* the platform client's session
    clientUser,     \* this.client.user is set
    guildCount,     \* this.client.guilds.cache.size
    isReady,        \* this.isReady
    schedulerTask,  \* this.schedulerTask is a running cron task
    liveTasks,      \* number of cron tasks that were scheduled and not stopped
    ready,          \* per run of the ClientReady handler: its position and its two awaited calls
    calls,          \* number of start() and stop() calls so far
    lastCall,       \* history: the last of them, with the effects of a stop() in order
    timerAfter,     \* history: what had finished when the running cron task was started
    lifeTicks,      \* number of cron callbacks so far
    calcRow,        \* the due notification handed to sendNotificationWithWorkingDays
    calcTick,       \* the time at which the cron callback that found it due began
    calcNow,        \* new Date() after the send
    calcWorkingDays,\* const workingDays
    calcPc,         \* "send" before the update is computed, "done" after
    calcPatch,      \* the patch given to storage.updateNotification
    issued,         \* history: the loadForwarders call made last, as it awaits its read
    toggle          \* the PATCH /api/notifications/:id/toggle request in progress

schedVars == <<now, rows, settings, logs, sent, pc, due, wdays, today>>

fwdVars == <<fwdTable, heap, forwarderCache, loads, handlers, received, fwdLogs, inbox,
            forwarded, installed>>

matchVars == <<content, keywords, matchType, matchPc, matchedKeyword>>

topoVars == <<guildChannels, serverRow, channelRows, syncs, syncRuns, cleanRuns, marks,
              serverSeq>>

lifeVars ==
    <<token, client, clientUser, guildCount, isReady, schedulerTask, ready, calls,
      lastCall, timerAfter, lifeTicks, liveTasks>>

calcVars == <<calcRow, calcTick, calcNow, calcWorkingDays, calcPc, calcPatch>>

reloadVars == <<issued>>

apiVars == <<toggle>>

vars == <<schedVars, fwdVars, matchVars, topoVars, lifeVars, calcVars, reloadVars, apiVars>>

----------------------------------------------------------------------------
(* Bounds of the model *)

MaxTicks == 2
UnitsPerMin == 2
MinsPerDay == 2
MaxElapsed == 4
MaxForwarders == 2
MaxLoads == 1
MaxHandlers == 1
MaxMessages == 1
MaxContentLen == 4
MaxKeywordLen == 3
MaxSyncRuns == 2
MaxReady == 2
MaxGuilds == 2
MaxCalls == 4
MaxLifeTicks == 1
MaxDelay == 1
MaxToggles == 1

(* Program constants *)

SearchDays == 7

----------------------------------------------------------------------------
(* Dates *)

NULL == <<>>
Some(t) == <<t>>
Val(d) == d[1]

UnitsPerDay == MinsPerDay * UnitsPerMin
DayOf(t) == t \div UnitsPerDay
MinuteOfDay(t) == (t % UnitsPerDay) \div UnitsPerMin

\* Date.prototype.getDay(): 0 = Sunday
getDay(t) == DayOf(t) % 7

\* Date.prototype.setDate(getDate() + k)
AddDays(t, k) == t + k * UnitsPerDay

\* Date.prototype.setHours(h, m, 0, 0) with h, m taken from `original`
SetClock(t, original) == DayOf(t) * UnitsPerDay + MinuteOfDay(original) * UnitsPerMin

MonthLengths == <<31, 28, 31, 30, 31, 30, 31, 31, 30, 31, 30, 31>>

RECURSIVE MonthFrom(_, _)
MonthFrom(dayOfYear, m) ==
    IF dayOfYear < MonthLengths[m] THEN m
    ELSE MonthFrom(dayOfYear - MonthLengths[m], (m % 12) + 1)

\* Date.prototype.getMonth() + 1
MonthOf(t) == MonthFrom(DayOf(t) % 365, 1)

\* Date.prototype.setMonth(getMonth() + 1): same day-of-month number in the next
\* month, and a day number past that month's end runs on into the month after
AddMonth(t) == AddDays(t, MonthLengths[MonthOf(t)])

----------------------------------------------------------------------------
(* Pure functions of the scheduler *)

RepeatTypes == {"once", "daily", "weekly", "monthly", "working_days"}

DefaultWorkingDays == {1, 2, 3, 4, 5}

RECURSIVE FindLoop(_, _, _)
FindLoop(next, workingDays, i) ==
    IF i >= SearchDays THEN next
    ELSE IF getDay(next) \in workingDays THEN next
    ELSE FindLoop(AddDays(next, 1), workingDays, i + 1)

\* Mutant: the search starts at fromDate itself
findNextWorkingDayFromToday(fromDate, workingDays) ==
    FindLoop(fromDate, workingDays, 0)

findNextWorkingDay(fromDate, workingDays) ==
    FindLoop(AddDays(fromDate, 1), workingDays, 0)

\* Mutant: the base is the stored schedule, not the later of it and the clock
CurrentBaseNoMax(n, t) ==
    IF n.nextScheduled # NULL THEN Val(n.nextScheduled) ELSE n.scheduleDate

\* const scheduled = nextScheduled || scheduleDate; const current = scheduled > now ? scheduled : now
CurrentBase(n, t) ==
    LET scheduled == IF n.nextScheduled # NULL THEN Val(n.nextScheduled) ELSE n.scheduleDate
    IN  IF scheduled > t THEN scheduled ELSE t

calculateNextScheduledWithWorkingDays(n, workingDays, t) ==
    LET current == CurrentBase(n, t)
    IN  CASE n.repeatType = "once" -> NULL
          [] n.repeatType = "daily" -> Some(AddDays(current, 1))
          [] n.repeatType = "weekly" -> Some(AddDays(current, 7))
          [] n.repeatType = "monthly" -> Some(AddMonth(current))
          [] n.repeatType = "working_days" -> Some(findNextWorkingDay(current, workingDays))
          [] OTHER -> NULL

\* Mutant: the terminal patch forgets isActive: false
RecurrencePatchStaysActive(n, nextScheduled, t) ==
    IF nextScheduled # NULL /\ (n.endDate = NULL \/ Val(nextScheduled) <= Val(n.endDate))
    THEN [lastSent |-> Some(t), nextScheduled |-> nextScheduled]
    ELSE [lastSent |-> Some(t), nextScheduled |-> NULL]

\* Mutant: a next fire exactly at endDate already ends the row
RecurrencePatchStrict(n, nextScheduled, t) ==
    IF nextScheduled # NULL /\ (n.endDate = NULL \/ Val(nextScheduled) < Val(n.endDate))
    THEN [lastSent |-> Some(t), nextScheduled |-> nextScheduled]
    ELSE [lastSent |-> Some(t), isActive |-> FALSE, nextScheduled |-> NULL]

\* The patch written after a delivery
RecurrencePatch(n, nextScheduled, t) ==
    IF nextScheduled # NULL /\ (n.endDate = NULL \/ Val(nextScheduled) <= Val(n.endDate))
    THEN [lastSent |-> Some(t), nextScheduled |-> nextScheduled]
    ELSE [lastSent |-> Some(t), isActive |-> FALSE, nextScheduled |-> NULL]

\* Mutant: the skip moves the schedule itself
SkipPatchMovesSchedule(n, workingDays, t) ==
    [nextScheduled |-> Some(SetClock(findNextWorkingDay(t, workingDays), n.scheduleDate)),
     scheduleDate |-> SetClock(findNextWorkingDay(t, workingDays), n.scheduleDate)]

\* The patch written by the working-days skip
SkipPatch(n, workingDays, t) ==
    [nextScheduled |-> Some(SetClock(findNextWorkingDay(t, workingDays), n.scheduleDate))]

----------------------------------------------------------------------------
(* Repository *)

\* The columns of a notification the scheduler only reads
UserInput ==
    [userId |-> 1, serverId |-> 1, channelId |-> 1, message |-> "hello", mentions |-> FALSE]

\* createNotification at time t: the columns of the input, nextScheduled starting
\* at scheduleDate, and the defaults of the table
createNotification(id, input, t) ==
    [id |-> id,
     userId |-> input.userId,
     serverId |-> input.serverId,
     channelId |-> input.channelId,
     message |-> input.message,
     mentions |-> input.mentions,
     updatedAt |-> t,
     repeatType |-> input.repeatType,
     scheduleDate |-> input.scheduleDate,
     endDate |-> input.endDate,
     isActive |-> TRUE,
     lastSent |-> NULL,
     nextScheduled |-> Some(input.scheduleDate)]

\* updateNotification at time t: set the patch's columns and updatedAt of the row
\* with this id
updateNotification(table, id, patch, t) ==
    IF id \in DOMAIN table THEN [table EXCEPT ![id] = patch @@ [@ EXCEPT !.updatedAt = t]]
    ELSE table

\* getDueNotifications: isActive and nextScheduled <= now (a null never compares true)
IsDue(r, t) == r.isActive /\ r.nextScheduled # NULL /\ Val(r.nextScheduled) <= t

DueIds(table, t) == {id \in DOMAIN table : IsDue(table[id], t)}

\* The result set has no ORDER BY: any order of the due rows
DueOrders(table, t) ==
    LET S == DueIds(table, t)
        k == Cardinality(S)
    IN  {[i \in 1..k |-> table[f[i]]] :
            f \in {g \in [1..k -> S] : \A i, j \in 1..k : g[i] = g[j] => i = j}}

LogRow(id, status) == [notificationId |-> id, status |-> status]

\* logNotificationResult: a failing insert is caught and only printed
logNotificationResult(table, id, status, logOk) ==
    IF logOk THEN table (+) SetToBag({LogRow(id, status)}) ELSE table

----------------------------------------------------------------------------
(* The forwarder cache *)

LoadIds == 1..MaxLoads
HandlerIds == 1..MaxHandlers

\* One text channel and one thread of it
ChannelIds == {"c1"}
ThreadIds == {"t1"}
ParentOf(thread) == "c1"

Inactive == [isActive |-> FALSE, sourceChannel |-> NULL, sourceThreadId |-> NULL]

\* A stored forwarder: active or not, scoped to a thread or not. Its source
\* channel row exists: source_channel_id is a NOT NULL foreign key
ForwarderRows ==
    {Inactive,
     [isActive |-> TRUE, sourceChannel |-> Some("c1"), sourceThreadId |-> NULL],
     [isActive |-> TRUE, sourceChannel |-> Some("c1"), sourceThreadId |-> Some("t1")]}

ForwarderIds == 1..MaxForwarders

\* getActiveForwarders: the active rows with their source channel, in any order
ActiveIds(table) == {id \in DOMAIN table : table[id].isActive}

ActiveForwarders(table) ==
    LET S == ActiveIds(table)
        k == Cardinality(S)
    IN  {[i \in 1..k |-> [id |-> f[i],
                          sourceChannel |-> table[f[i]].sourceChannel,
                          sourceThreadId |-> table[f[i]].sourceThreadId]] :
            f \in {g \in [1..k -> S] : \A i, j \in 1..k : g[i] = g[j] => i = j}}

\* `thread:${id}` and `channel:${id}`
ThreadKey(id) == <<"thread", id>>
ChannelKey(id) == <<"channel", id>>

\* A new array: a reference no array of the heap has
NewRef(h) == CHOOSE r \in 1..(Cardinality(DOMAIN h) + 1) : r \notin DOMAIN h

\* Map.prototype.set
MapSet(cache, key, ref) == [k \in DOMAIN cache \cup {key} |-> IF k = key THEN ref ELSE cache[k]]

\* Mutant: every rule goes under the key of its source channel
AddForwarderUnderChannel(st, forwarder) ==
    IF forwarder.sourceChannel = NULL THEN st
    ELSE
      LET key == ChannelKey(Val(forwarder.sourceChannel))
          ref == IF key \in DOMAIN st.cache THEN st.cache[key] ELSE NewRef(st.heap)
          old == IF key \in DOMAIN st.cache THEN st.heap[ref] ELSE <<>>
      IN  [cache |-> MapSet(st.cache, key, ref),
           heap |-> [r \in DOMAIN st.heap \cup {ref} |->
                        IF r = ref THEN Append(old, forwarder) ELSE st.heap[r]]]

\* The body of the for loop of loadForwarders, on st = [cache, heap]
AddForwarder(st, forwarder) ==
    IF forwarder.sourceChannel = NULL THEN st
    ELSE
      LET channelDiscordId == Val(forwarder.sourceChannel)
          key == IF forwarder.sourceThreadId # NULL
                 THEN ThreadKey(Val(forwarder.sourceThreadId))
                 ELSE ChannelKey(channelDiscordId)
          \* const existing = this.forwarderCache.get(key) || []; existing.push(forwarder)
          ref == IF key \in DOMAIN st.cache THEN st.cache[key] ELSE NewRef(st.heap)
          old == IF key \in DOMAIN st.cache THEN st.heap[ref] ELSE <<>>
          heap1 == [r \in DOMAIN st.heap \cup {ref} |->
                       IF r = ref THEN Append(old, forwarder) ELSE st.heap[r]]
          cache1 == MapSet(st.cache, key, ref)
          channelKey == ChannelKey(channelDiscordId)
      IN  IF forwarder.sourceThreadId = NULL /\ channelKey \notin DOMAIN cache1
          THEN [cache |-> MapSet(cache1, channelKey, NewRef(heap1)),
                heap |-> [r \in DOMAIN heap1 \cup {NewRef(heap1)} |->
                             IF r \in DOMAIN heap1 THEN heap1[r] ELSE <<>>]]
          ELSE [cache |-> cache1, heap |-> heap1]

RECURSIVE AddAll(_, _)
AddAll(st, activeForwarders) ==
    IF activeForwarders = <<>> THEN st
    ELSE AddAll(AddForwarder(st, Head(activeForwarders)), Tail(activeForwarders))

\* Mutant: the map is not cleared, the rows are pushed onto the arrays it holds
RebuildCacheWithoutClear(cache, h, activeForwarders) ==
    AddAll([cache |-> cache, heap |-> h], activeForwarders)

\* Mutant: the rebuild leaves the map as it finds it
RebuildCacheKeepsOld(cache, h, activeForwarders) == [cache |-> cache, heap |-> h]

\* this.forwarderCache.clear() and the for loop of loadForwarders: no await in
\* between, so no other callback runs before the loop ends
RebuildCache(cache, h, activeForwarders) ==
    AddAll([cache |-> <<>>, heap |-> h], activeForwarders)

\* Arrays nothing refers to any more are gone
Collect(h, cache, hs) ==
    LET live == {cache[k] : k \in DOMAIN cache}
                \cup {hs[x].ref : x \in {y \in DOMAIN hs : hs[y].pc = "loop"}}
    IN  [r \in DOMAIN h \cap live |-> h[r]]

RECURSIVE SeqOf(_)
SeqOf(S) == IF S = {} THEN <<>>
            ELSE LET e == CHOOSE e \in S : TRUE IN <<e>> \o SeqOf(S \ {e})

\* References are opaque: the arrays still referred to, numbered anew (first those
\* of the map, by key, then those only a handler holds)
Compact(cache, h, hs) ==
    LET keys == SeqOf(DOMAIN cache)
        looping == {x \in DOMAIN hs : hs[x].pc = "loop"}
        only == {hs[x].ref : x \in looping} \ {cache[k] : k \in DOMAIN cache}
        order == [i \in 1..Len(keys) |-> cache[keys[i]]] \o SeqOf(only)
        new(r) == CHOOSE i \in 1..Len(order) : order[i] = r
    IN  [cache |-> [k \in DOMAIN cache |-> new(cache[k])],
         heap |-> [i \in 1..Len(order) |-> Collect(h, cache, hs)[order[i]]],
         handlers |-> [x \in DOMAIN hs |->
                          IF x \in looping THEN [hs[x] EXCEPT !.ref = new(@)] ELSE hs[x]]]

IdleHandler == [pc |-> "idle"]

IdleLoad == [pc |-> "idle", ok |-> TRUE, result |-> <<>>]

FwdIdle ==
    /\ fwdTable = [id \in ForwarderIds |-> Inactive]
    /\ heap = <<>>
    /\ forwarderCache = <<>>
    /\ loads = [l \in LoadIds |-> IdleLoad]
    /\ handlers = [h \in HandlerIds |-> IdleHandler]
    /\ received = 0
    /\ fwdLogs = EmptyBag
    /\ inbox = <<>>
    /\ forwarded = EmptyBag
    /\ installed = <<>>

\* The API creates, updates, toggles or deletes one forwarder
ApiWrite(id, row) ==
    /\ fwdTable[id] # row
    /\ fwdTable' = [fwdTable EXCEPT ![id] = row]
    /\ UNCHANGED <<heap, forwarderCache, loads, handlers, received, fwdLogs, inbox, forwarded,
                   installed>>

\* The key a forwarder is cached under
KeyOf(f) ==
    IF f.sourceThreadId # NULL THEN ThreadKey(Val(f.sourceThreadId))
    ELSE ChannelKey(Val(f.sourceChannel))

\* The whole cache of one result of getActiveForwarders: under each key, the
\* forwarders of that key in the order of the result
CompleteCache(activeForwarders) ==
    LET usable == SelectSeq(activeForwarders, LAMBDA f : f.sourceChannel # NULL)
        OfKey(k) == SelectSeq(usable, LAMBDA f : KeyOf(f) = k)
    IN  [k \in {KeyOf(usable[i]) : i \in 1..Len(usable)} |-> OfKey(k)]

\* loadForwarders is called (Ready, reloadForwarders) and awaits
\* storage.getActiveForwarders(), which reads the table or fails
LoadStart(l) ==
    /\ loads[l].pc = "idle"
    /\ \A k \in LoadIds : k < l => loads[k].pc # "idle"
    /\ \/ \E result \in ActiveForwarders(fwdTable) :
             loads' = [loads EXCEPT ![l] = [pc |-> "await", ok |-> TRUE, result |-> result]]
       \/ loads' = [loads EXCEPT ![l] = [pc |-> "await", ok |-> FALSE, result |-> <<>>]]
    /\ UNCHANGED <<fwdTable, heap, forwarderCache, handlers, received, fwdLogs, inbox, forwarded,
                   installed>>

\* Mutant: the cache is cleared before the read is awaited
loadForwardersCatchCleared(cache, h) == [cache |-> <<>>, heap |-> h]

\* catch (error) of loadForwarders: getActiveForwarders() threw before
\* this.forwarderCache.clear(); the error is logged and the call returns
loadForwardersCatch(cache, h) == [cache |-> cache, heap |-> h]

\* The await of loadForwarders returns: clear and rebuild, or the catch
LoadFinish(l) ==
    /\ loads[l].pc = "await"
    /\ loads' = [loads EXCEPT ![l] = IdleLoad]
    /\ IF ~loads[l].ok
       THEN /\ forwarderCache' = loadForwardersCatch(forwarderCache, heap).cache
            /\ heap' = loadForwardersCatch(forwarderCache, heap).heap
            /\ UNCHANGED <<handlers, installed>>
       ELSE LET st == RebuildCache(forwarderCache, heap, loads[l].result)
                live == Compact(st.cache, st.heap, handlers)
            IN  /\ forwarderCache' = live.cache
                /\ heap' = live.heap
                /\ handlers' = live.handlers
                /\ installed' = CompleteCache(loads[l].result)
    /\ UNCHANGED <<fwdTable, received, fwdLogs, inbox, forwarded>>

\* reloadForwarders() does not await loadForwarders: the calls the API makes
\* after its writes can be in flight together
ReloadIds == {1, 2}

\* The cache is empty and no call is in flight
ReloadInit ==
    /\ fwdTable = [id \in ForwarderIds |-> Inactive]
    /\ heap = <<>>
    /\ forwarderCache = <<>>
    /\ loads = [l \in ReloadIds |-> IdleLoad]
    /\ handlers = [h \in HandlerIds |-> IdleHandler]
    /\ received = 0
    /\ fwdLogs = EmptyBag
    /\ inbox = <<>>
    /\ forwarded = EmptyBag
    /\ installed = <<>>
    /\ issued = NULL

\* A call of loadForwarders, remembered as the one made last
Issue(l) ==
    /\ LoadStart(l)
    /\ issued' = Some(loads'[l])

\* Inbound messages: in the channel, in the thread, from a bot, outside a guild
Messages ==
    {[bot |-> FALSE, guild |-> TRUE, channel |-> "c1", isThread |-> FALSE, parentId |-> NULL],
     [bot |-> FALSE, guild |-> TRUE, channel |-> "t1", isThread |-> TRUE,
      parentId |-> Some(ParentOf("t1"))],
     [bot |-> TRUE, guild |-> TRUE, channel |-> "c1", isThread |-> FALSE, parentId |-> NULL],
     [bot |-> FALSE, guild |-> FALSE, channel |-> "c1", isThread |-> FALSE, parentId |-> NULL]}

\* Mutant: only messages outside a guild are ignored
IgnoredOutsideGuild(message) == ~message.guild

\* if (message.author.bot) return; if (!message.guild) return;
Ignored(message) == message.bot \/ ~message.guild

\* this.forwarderCache.get(key) || []
CachedList(cache, h, key) == IF key \in DOMAIN cache THEN h[cache[key]] ELSE <<>>

\* Mutant: a thread message gets the rules of its thread only
CandidatesThreadOnly(cache, h, message) ==
    IF message.isThread THEN CachedList(cache, h, ThreadKey(message.channel))
    ELSE CachedList(cache, h, ChannelKey(message.channel))

\* let forwarders: for a thread message the list under the thread key followed by
\* the list under the key of the parent channel, if it has one; else the list
\* under the channel key
Candidates(cache, h, message) ==
    LET threadList == CachedList(cache, h, ThreadKey(message.channel))
        parentList == IF message.parentId # NULL
                      THEN CachedList(cache, h, ChannelKey(Val(message.parentId)))
                      ELSE <<>>
    IN  IF message.isThread THEN threadList \o parentList
        ELSE CachedList(cache, h, ChannelKey(message.channel))

\* The Events.MessageCreate handler up to its for loop: the candidates are a new
\* array for a thread message, and the very array of the cache (or a new empty
\* one) for a channel message
MessageCreate(x, message) ==
    /\ handlers[x].pc = "idle"
    /\ \A y \in HandlerIds : y < x => handlers[y].pc # "idle"
    /\ received < MaxMessages
    /\ received' = received + 1
    /\ inbox' = Append(inbox, message)
    /\ IF Ignored(message)
       THEN UNCHANGED <<heap, handlers>>
       ELSE
         LET channelKey == ChannelKey(message.channel)
             shared == ~message.isThread /\ channelKey \in DOMAIN forwarderCache
             forwarders == Candidates(forwarderCache, heap, message)
             ref == IF shared THEN forwarderCache[channelKey] ELSE NewRef(heap)
         IN  IF Len(forwarders) = 0
             THEN UNCHANGED <<heap, handlers>>
             ELSE /\ heap' = [r \in DOMAIN heap \cup {ref} |->
                                 IF r = ref THEN forwarders ELSE heap[r]]
                  /\ handlers' = [handlers EXCEPT ![x] =
                                     [pc |-> "loop", message |-> message, ref |-> ref,
                                      i |-> 1, taken |-> forwarders]]
    /\ UNCHANGED <<fwdTable, forwarderCache, loads, fwdLogs, forwarded, installed>>

\* What one candidate does with the message: no keyword matches; resolving the
\* destination or sending throws; or the message is sent
ForwardOutcomes == {"nomatch", "failed", "success"}

\* logForwarderResult: the insert, whose failure is swallowed
logForwarderResult(table, forwarderId, status, logOk) ==
    IF logOk THEN table (+) SetToBag({[forwarderId |-> forwarderId, status |-> status]})
    ELSE table

\* One iteration of for (const forwarder of forwarders), which awaits
\* forwardMessage and the log insert
ForwardStep(x) ==
    /\ handlers[x].pc = "loop"
    /\ LET list == heap[handlers[x].ref]
           i == handlers[x].i
       IN  /\ \E outcome \in ForwardOutcomes, logOk \in BOOLEAN :
                 /\ outcome = "nomatch" => logOk
                 /\ fwdLogs' = IF outcome = "nomatch" THEN fwdLogs
                               ELSE logForwarderResult(fwdLogs, list[i].id, outcome, logOk)
                 /\ forwarded' = IF outcome = "success"
                                 THEN forwarded (+) SetToBag({[forwarderId |-> list[i].id,
                                                              channel |-> handlers[x].message.channel]})
                                 ELSE forwarded
           /\ IF i + 1 > Len(list)
              THEN LET live == Compact(forwarderCache, heap,
                                       [handlers EXCEPT ![x] = IdleHandler])
                   IN  /\ handlers' = live.handlers
                       /\ heap' = live.heap
                       /\ forwarderCache' = live.cache
              ELSE /\ handlers' = [handlers EXCEPT ![x].i = i + 1]
                   /\ UNCHANGED <<heap, forwarderCache>>
    /\ UNCHANGED <<fwdTable, loads, received, inbox, installed>>

----------------------------------------------------------------------------
(* Keyword matching.  A string is a sequence of characters. *)

\* One upper-case letter, two lower-case letters, white space, punctuation
Chars == {"A", "a", "b", " ", "!"}

RECURSIVE StringsOfLength(_)
StringsOfLength(n) ==
    IF n = 0 THEN {<<>>}
    ELSE {Append(str, c) : str \in StringsOfLength(n - 1), c \in Chars}

Strings(maxLen) == UNION {StringsOfLength(n) : n \in 0..maxLen}

\* \w and \s of the regular expressions
IsWordChar(c) == c \in {"A", "a", "b"}
IsWhitespace(c) == c = " "

\* String.prototype.toLowerCase
toLowerCase(str) == [i \in 1..Len(str) |-> IF str[i] = "A" THEN "a" ELSE str[i]]

RECURSIVE trimStart(_)
trimStart(str) ==
    IF str # <<>> /\ IsWhitespace(Head(str)) THEN trimStart(Tail(str)) ELSE str

RECURSIVE trimEnd(_)
trimEnd(str) ==
    IF str # <<>> /\ IsWhitespace(str[Len(str)])
    THEN trimEnd(SubSeq(str, 1, Len(str) - 1)) ELSE str

\* String.prototype.trim
trim(str) == trimEnd(trimStart(str))

\* String.prototype.includes
includes(str, searchString) ==
    \E i \in 0..(Len(str) - Len(searchString)) :
        SubSeq(str, i + 1, i + Len(searchString)) = searchString

\* .replace(/[^\w\s]/g, " ")
replaceNonWord(str) ==
    [i \in 1..Len(str) |->
        IF ~IsWordChar(str[i]) /\ ~IsWhitespace(str[i]) THEN " " ELSE str[i]]

\* .replace(/\s+/g, " ")
RECURSIVE collapseWhitespace(_)
collapseWhitespace(str) ==
    IF str = <<>> THEN <<>>
    ELSE IF IsWhitespace(Head(str)) THEN <<" ">> \o collapseWhitespace(trimStart(str))
    ELSE <<Head(str)>> \o collapseWhitespace(Tail(str))

\* .replace(/[^\w\s]/g, " ").replace(/\s+/g, " ").trim()
normalize(str) == trim(collapseWhitespace(replaceNonWord(str)))

\* .split(" "): the pieces between the spaces, [""] for the empty string
RECURSIVE SplitFrom(_, _)
SplitFrom(str, piece) ==
    IF str = <<>> THEN <<piece>>
    ELSE IF Head(str) = " " THEN <<piece>> \o SplitFrom(Tail(str), <<>>)
    ELSE SplitFrom(Tail(str), Append(piece, Head(str)))

split(str) == SplitFrom(str, <<>>)

\* Mutant: the normalized keyword is looked for as a substring
tokensMatchAnywhere(messageTokens, keywordTokens) ==
    \E m \in 1..Len(messageTokens) :
        \A j \in 1..Len(keywordTokens) : includes(messageTokens[m], keywordTokens[j])

\* The two for loops: the keyword tokens in sequence at some offset i
tokensMatch(messageTokens, keywordTokens) ==
    \E i \in 0..(Len(messageTokens) - Len(keywordTokens)) :
        \A j \in 0..(Len(keywordTokens) - 1) :
            messageTokens[i + j + 1] = keywordTokens[j + 1]

\* The callback of forwarder.keywords.find; messageContent is lower case already
keywordMatches(messageContent, keyword, type) ==
    LET lowerKeyword == trim(toLowerCase(keyword))
    IN  IF type = "exact"
        THEN tokensMatch(split(normalize(messageContent)), split(normalize(lowerKeyword)))
        ELSE includes(messageContent, lowerKeyword)

\* Mutant: the last keyword that matches
RECURSIVE findLast(_, _, _)
findLast(messageContent, list, type) ==
    IF list = <<>> THEN NULL
    ELSE IF keywordMatches(messageContent, list[Len(list)], type) THEN Some(list[Len(list)])
    ELSE findLast(messageContent, SubSeq(list, 1, Len(list) - 1), type)

\* Array.prototype.find: the first keyword the callback accepts, or undefined
RECURSIVE find(_, _, _)
find(messageContent, list, type) ==
    IF list = <<>> THEN NULL
    ELSE IF keywordMatches(messageContent, Head(list), type) THEN Some(Head(list))
    ELSE find(messageContent, Tail(list), type)

\* const matchedKeyword = ...; if (!matchedKeyword) continue: the empty string is
\* falsy, so a rule whose first accepted keyword is "" is passed over
evaluateRule(messageText, list, type) ==
    LET found == find(toLowerCase(messageText), list, type)
    IN  IF found = NULL \/ Val(found) = <<>> THEN NULL ELSE found

MatchTypes == {"contains", "exact"}

\* The API accepts any array of at least one string (z.array(z.string()).min(1)):
\* one keyword, or two short ones
KeywordLists ==
    {<<k>> : k \in Strings(MaxKeywordLen)}
    \cup {<<k1, k2>> : k1 \in Strings(MaxKeywordLen - 2), k2 \in Strings(MaxKeywordLen - 2)}

MatchIdle ==
    /\ content = <<>>
    /\ keywords = <<>>
    /\ matchType = "contains"
    /\ matchPc = "off"
    /\ matchedKeyword = NULL

MatchInit ==
    /\ content \in Strings(MaxContentLen)
    /\ keywords \in KeywordLists
    /\ matchType \in MatchTypes
    /\ matchPc = "input"
    /\ matchedKeyword = NULL

\* The body of the try of the for loop of handleMessageForwarding, up to the
\* decision to forward
EvaluateRule ==
    /\ matchPc = "input"
    /\ matchPc' = "done"
    /\ matchedKeyword' = evaluateRule(content, keywords, matchType)
    /\ UNCHANGED <<content, keywords, matchType>>

----------------------------------------------------------------------------
(* Topology sync: syncServer and syncChannels for one guild.  A channel's name is
   written and compared exactly like its type and is left out. *)

\* One syncServer call at a time
SyncIds == {1}

GuildChannelIds == {"c1", "c2"}

\* ChannelType.GuildText, ChannelType.GuildAnnouncement, and any other type
ChannelKinds == {"text", "announcement", "voice"}

\* channel.type === GuildText || channel.type === GuildAnnouncement
IsTextLike(kind) == kind \in {"text", "announcement"}

TextLikeIds(channels) == {c \in DOMAIN channels : IsTextLike(channels[c])}

\* An order of a set of channel ids
Orders(S) ==
    {f \in [1..Cardinality(S) -> S] : \A i, j \in 1..Cardinality(S) : f[i] = f[j] => i = j}

\* orderBy(discordChannels.name): the rows of the channels in S in their one order
RECURSIVE InNameOrder(_)
InNameOrder(S) ==
    IF S = {} THEN <<>>
    ELSE LET c == CHOOSE c \in S : \A d \in S : c = "c1" \/ d # "c1"
         IN  <<c>> \o InNameOrder(S \ {c})

IdleSync ==
    [pc |-> "idle", channels |-> <<>>, todo |-> <<>>, existing |-> <<>>,
     found |-> FALSE, clean |-> TRUE]

\* One GuildDelete handler at a time
MarkIds == {1}

IdleMark == [pc |-> "idle", found |-> FALSE]

TopoIdle ==
    /\ guildChannels = <<>>
    /\ serverRow = NULL
    /\ channelRows = <<>>
    /\ syncs = [s \in SyncIds |-> IdleSync]
    /\ syncRuns = 0
    /\ cleanRuns = 0
    /\ marks = [m \in MarkIds |-> IdleMark]
    /\ serverSeq = 0

\* The guild as it is when the bot looks at it first; nothing is stored yet
TopoInit ==
    /\ guildChannels \in UNION {[S -> ChannelKinds] : S \in SUBSET GuildChannelIds}
    /\ serverRow = NULL
    /\ channelRows = <<>>
    /\ syncs = [s \in SyncIds |-> IdleSync]
    /\ syncRuns = 0
    /\ cleanRuns = 0
    /\ marks = [m \in MarkIds |-> IdleMark]
    /\ serverSeq = 0

\* The rows without their timestamps
WithoutTimestamps(table) ==
    [c \in DOMAIN table |-> [type |-> table[c].type, referenced |-> table[c].referenced]]

\* A channel is created, deleted or changes its kind on the platform
GuildChange(c, kind) ==
    /\ guildChannels' =
          IF kind = "none" THEN [d \in DOMAIN guildChannels \ {c} |-> guildChannels[d]]
          ELSE [d \in DOMAIN guildChannels \cup {c} |->
                   IF d = c THEN kind ELSE guildChannels[d]]
    /\ guildChannels' # guildChannels
    /\ cleanRuns' = 0
    /\ syncs' = [s \in DOMAIN syncs |->
                    IF syncs[s].pc = "idle" THEN syncs[s]
                    ELSE [syncs[s] EXCEPT !.clean = FALSE]]
    /\ UNCHANGED <<serverRow, channelRows, syncRuns, marks, serverSeq>>

\* The API stores a notification or a forwarder on a channel row: the row is now
\* the target of a foreign key (notifications.channel_id, forwarders.*_channel_id)
Reference(c) ==
    /\ c \in DOMAIN channelRows
    /\ ~channelRows[c].referenced
    /\ channelRows' = [channelRows EXCEPT ![c].referenced = TRUE]
    /\ UNCHANGED <<guildChannels, serverRow, syncs, syncRuns, cleanRuns, marks, serverSeq>>

\* A call that threw: syncServer's catch ends the call
Abandon(s) == syncs' = [syncs EXCEPT ![s] = IdleSync]

\* syncServer is called and awaits guild.fetch()
SyncBegin(s) ==
    /\ syncs[s].pc = "idle"
    /\ syncRuns < MaxSyncRuns
    /\ syncRuns' = syncRuns + 1
    /\ \E ok \in BOOLEAN :
          IF ok THEN syncs' = [syncs EXCEPT ![s] = [IdleSync EXCEPT !.pc = "lookupServer"]]
          ELSE Abandon(s)
    /\ UNCHANGED <<guildChannels, serverRow, channelRows, cleanRuns, marks, serverSeq>>

\* let server = await storage.getServerByDiscordId(fullGuild.id)
LookupServer(s) ==
    /\ syncs[s].pc = "lookupServer"
    /\ \E ok \in BOOLEAN :
          IF ok THEN syncs' = [syncs EXCEPT ![s].pc = "writeServer",
                                            ![s].found = (serverRow # NULL)]
          ELSE Abandon(s)
    /\ UNCHANGED <<guildChannels, serverRow, channelRows, syncRuns, cleanRuns, marks, serverSeq>>

\* storage.createServer({..., isConnected: true}): the row gets the next identity
createServer(id, t) == Some([id |-> id, isConnected |-> TRUE, updatedAt |-> t])

\* storage.updateServer(id, {..., isConnected}): the row keeps its id
updateServer(row, isConnected, t) ==
    IF row = NULL THEN NULL
    ELSE Some([Val(row) EXCEPT !.isConnected = isConnected, !.updatedAt = t])

\* storage.updateServer(server.id, {..., isConnected: true}) or storage.createServer
WriteServer(s) ==
    /\ syncs[s].pc = "writeServer"
    /\ \E ok \in BOOLEAN :
          IF ok /\ (syncs[s].found <=> serverRow # NULL)
          THEN /\ serverRow' = IF syncs[s].found
                                THEN updateServer(serverRow, TRUE, syncRuns)
                                ELSE createServer(serverSeq + 1, syncRuns)
               /\ serverSeq' = IF syncs[s].found THEN serverSeq ELSE serverSeq + 1
               /\ syncs' = [syncs EXCEPT ![s].pc = "fetchChannels"]
          ELSE /\ UNCHANGED <<serverRow, serverSeq>>
               /\ Abandon(s)
    /\ UNCHANGED <<guildChannels, channelRows, syncRuns, cleanRuns, marks>>

\* syncChannels threw: its catch logs and the call returns.  The position records
\* whether the platform or the repository was unavailable ("outage") or the
\* repository refused the statement ("catch")
Catch(s, outage) ==
    syncs' = [syncs EXCEPT ![s].pc = IF outage THEN "outage" ELSE "catch",
                           ![s].clean = @ /\ ~outage]

\* const channelsCollection = await guild.channels.fetch(); the loop will visit
\* the channels in the collection's order and pass over those of other types
FetchChannels(s) ==
    /\ syncs[s].pc = "fetchChannels"
    /\ \/ \E order \in Orders(TextLikeIds(guildChannels)) :
             syncs' = [syncs EXCEPT ![s].pc = "readExisting",
                                    ![s].channels = guildChannels,
                                    ![s].todo = order]
       \/ Catch(s, TRUE)
    /\ UNCHANGED <<guildChannels, serverRow, channelRows, syncRuns, cleanRuns, marks, serverSeq>>

\* Mutant: the second loop deletes every row it read
StaleIdsAll(table, channels) == DOMAIN table

\* if (!syncedChannelIds.has(existingChannel.discordId)): the rows the second loop
\* deletes, syncedChannelIds being the fetched text and announcement channels
StaleIds(table, channels) == DOMAIN table \ TextLikeIds(channels)

\* const existingChannels = await storage.getChannelsByServer(serverId); the second
\* loop will pass over the rows whose discordId is in syncedChannelIds
ReadExisting(s) ==
    /\ syncs[s].pc = "readExisting"
    /\ \E ok \in BOOLEAN :
          IF ok
          THEN syncs' = [syncs EXCEPT
                  ![s].pc = "lookupChannel",
                  ![s].existing = InNameOrder(StaleIds(channelRows, syncs[s].channels))]
          ELSE Catch(s, TRUE)
    /\ UNCHANGED <<guildChannels, serverRow, channelRows, syncRuns, cleanRuns, marks, serverSeq>>

\* const existingChannel = await storage.getChannelByDiscordId(channel.id), or the
\* first loop is over
LookupChannel(s) ==
    /\ syncs[s].pc = "lookupChannel"
    /\ IF syncs[s].todo = <<>>
       THEN syncs' = [syncs EXCEPT ![s].pc = "deletes"]
       ELSE \E ok \in BOOLEAN :
              IF ok THEN syncs' = [syncs EXCEPT
                            ![s].pc = "writeChannel",
                            ![s].found = (Head(syncs[s].todo) \in DOMAIN channelRows)]
              ELSE Catch(s, TRUE)
    /\ UNCHANGED <<guildChannels, serverRow, channelRows, syncRuns, cleanRuns, marks, serverSeq>>

\* channel.type === GuildAnnouncement ? "announcement" : "text"
RowType(kind) == IF kind = "announcement" THEN "announcement" ELSE "text"

\* storage.updateChannel(existingChannel.id, {name, type}) or storage.createChannel
WriteChannel(s) ==
    /\ syncs[s].pc = "writeChannel"
    /\ LET c == Head(syncs[s].todo)
           type == RowType(syncs[s].channels[c])
       IN  \E ok \in BOOLEAN :
             IF ~ok THEN /\ Catch(s, TRUE)
                         /\ UNCHANGED channelRows
             ELSE IF syncs[s].found
             THEN /\ channelRows' =
                        IF c \in DOMAIN channelRows
                        THEN [channelRows EXCEPT ![c].type = type,
                                                 ![c].updatedAt = syncRuns]
                        ELSE channelRows
                  /\ syncs' = [syncs EXCEPT ![s].pc = "lookupChannel",
                                            ![s].todo = Tail(@)]
             ELSE IF c \in DOMAIN channelRows
             THEN /\ Catch(s, FALSE)
                  /\ UNCHANGED channelRows
             ELSE /\ channelRows' =
                        [d \in DOMAIN channelRows \cup {c} |->
                            IF d = c THEN [type |-> type, updatedAt |-> syncRuns,
                                           referenced |-> FALSE]
                            ELSE channelRows[d]]
                  /\ syncs' = [syncs EXCEPT ![s].pc = "lookupChannel",
                                            ![s].todo = Tail(@)]
    /\ UNCHANGED <<guildChannels, serverRow, syncRuns, cleanRuns, marks, serverSeq>>

\* db.delete(discordChannels) goes through unless a notification or a forwarder
\* row refers to the channel (foreign keys without ON DELETE)
DeleteAllowed(table, c) == c \notin DOMAIN table \/ ~table[c].referenced

\* await storage.deleteChannel(existingChannel.id) for the next row that is not in
\* syncedChannelIds, or the second loop is over
DeleteChannel(s) ==
    /\ syncs[s].pc = "deletes"
    /\ IF syncs[s].existing = <<>>
       THEN /\ syncs' = [syncs EXCEPT ![s].pc = "end"]
            /\ UNCHANGED channelRows
       ELSE LET c == Head(syncs[s].existing)
            IN  \E ok \in BOOLEAN :
                  IF ~ok THEN /\ Catch(s, TRUE)
                              /\ UNCHANGED channelRows
                  ELSE IF ~DeleteAllowed(channelRows, c)
                  THEN /\ Catch(s, FALSE)
                       /\ UNCHANGED channelRows
                  ELSE /\ channelRows' = [d \in DOMAIN channelRows \ {c} |-> channelRows[d]]
                       /\ syncs' = [syncs EXCEPT ![s].existing = Tail(@)]
    /\ UNCHANGED <<guildChannels, serverRow, syncRuns, cleanRuns, marks, serverSeq>>

\* syncChannels returns and syncServer logs and returns
SyncReturn(s) ==
    /\ syncs[s].pc \in {"end", "catch", "outage"}
    /\ syncs' = [syncs EXCEPT ![s] = IdleSync]
    /\ cleanRuns' = IF syncs[s].clean THEN 1 ELSE cleanRuns
    /\ UNCHANGED <<guildChannels, serverRow, channelRows, syncRuns, marks, serverSeq>>

SyncStep(s) ==
    \/ SyncBegin(s)
    \/ LookupServer(s)
    \/ WriteServer(s)
    \/ FetchChannels(s)
    \/ ReadExisting(s)
    \/ LookupChannel(s)
    \/ WriteChannel(s)
    \/ DeleteChannel(s)
    \/ SyncReturn(s)

\* Mutant: the row of the guild the bot left is deleted
markServerDeleted(row, t) == NULL

\* await storage.updateServer(server.id, { isConnected: false })
markServerDisconnected(row, t) == updateServer(row, FALSE, t)

\* Events.GuildDelete: the handler calls markServerDisconnected, which awaits
\* storage.getServerByDiscordId(discordId)
GuildDelete(m) ==
    /\ marks[m].pc = "idle"
    /\ marks' = [marks EXCEPT ![m].pc = "lookup"]
    /\ UNCHANGED <<guildChannels, serverRow, channelRows, syncs, syncRuns, cleanRuns,
                   serverSeq>>

\* const server = await storage.getServerByDiscordId(discordId); if (server)
MarkLookup(m) ==
    /\ marks[m].pc = "lookup"
    /\ \E ok \in BOOLEAN :
          marks' = [marks EXCEPT ![m] =
                       IF ~ok THEN [pc |-> "catch", found |-> FALSE]
                       ELSE IF serverRow # NULL THEN [pc |-> "update", found |-> TRUE]
                       ELSE [pc |-> "end", found |-> FALSE]]
    /\ UNCHANGED <<guildChannels, serverRow, channelRows, syncs, syncRuns, cleanRuns,
                   serverSeq>>

\* The update returns or throws into the catch of markServerDisconnected
MarkUpdate(m) ==
    /\ marks[m].pc = "update"
    /\ \E ok \in BOOLEAN :
          IF ok
          THEN /\ serverRow' = markServerDisconnected(serverRow, syncRuns)
               /\ marks' = [marks EXCEPT ![m].pc = "end"]
          ELSE /\ UNCHANGED serverRow
               /\ marks' = [marks EXCEPT ![m].pc = "catch"]
    /\ UNCHANGED <<guildChannels, channelRows, syncs, syncRuns, cleanRuns, serverSeq>>

\* markServerDisconnected logs and returns
MarkReturn(m) ==
    /\ marks[m].pc \in {"end", "catch"}
    /\ marks' = [marks EXCEPT ![m] = IdleMark]
    /\ UNCHANGED <<guildChannels, serverRow, channelRows, syncs, syncRuns, cleanRuns,
                   serverSeq>>

MarkStep(m) ==
    \/ GuildDelete(m)
    \/ MarkLookup(m)
    \/ MarkUpdate(m)
    \/ MarkReturn(m)

\* Two syncServer calls in flight: the Ready-time syncAllServers and a GuildCreate
\* handler, or an API sync
PairIds == {1, 2}

\* What an earlier sync of the guild, as it was then, and the API since can have
\* left: channel rows of type text or announcement, referenced or not
StoredChannelRows ==
    UNION {[S -> [type : {"text", "announcement"}, updatedAt : {0}, referenced : BOOLEAN]] :
              S \in SUBSET GuildChannelIds}

\* The guild is new to the repository, or its server row and some channel rows
\* exist; two calls can be made
PairInit ==
    /\ guildChannels \in UNION {[S -> ChannelKinds] : S \in SUBSET GuildChannelIds}
    /\ \/ serverRow = NULL /\ serverSeq = 0 /\ channelRows = <<>>
       \/ serverRow = createServer(1, 0) /\ serverSeq = 1 /\ channelRows \in StoredChannelRows
    /\ syncs = [s \in PairIds |-> IdleSync]
    /\ syncRuns = 0
    /\ cleanRuns = 0
    /\ marks = [m \in MarkIds |-> IdleMark]

\* The step of call s in which the platform or the repository is unavailable:
\* guild.fetch() or a repository call throws for a reason other than a
\* constraint of the schema
Outage(s) ==
    \/ syncs'[s].pc = "outage"
    \/ syncs[s].pc \in {"idle", "lookupServer"} /\ syncs'[s].pc = "idle"
    \/ /\ syncs[s].pc = "writeServer"
       /\ syncs'[s].pc = "idle"
       /\ syncs[s].found <=> serverRow # NULL

----------------------------------------------------------------------------
(* Lifecycle: start(), stop(), getStatus(), the ClientReady handler and the cron
   task.  syncAllServers and loadForwarders appear as calls that run on their own
   and that the handler awaits. *)

ReadyIds == 1..MaxReady

IdleReady == [pc |-> "idle", sync |-> "idle", guilds |-> 0, load |-> "idle"]

LifeIdle ==
    /\ token = FALSE
    /\ client = "created"
    /\ clientUser = FALSE
    /\ guildCount = 0
    /\ isReady = FALSE
    /\ schedulerTask = FALSE
    /\ ready = [h \in ReadyIds |-> IdleReady]
    /\ calls = 0
    /\ lastCall = <<>>
    /\ timerAfter = <<>>
    /\ lifeTicks = 0
    /\ liveTasks = 0

\* The service as constructed, in an environment with or without the token
LifeInit ==
    /\ token \in BOOLEAN
    /\ client = "created"
    /\ clientUser = FALSE
    /\ guildCount = 0
    /\ isReady = FALSE
    /\ schedulerTask = FALSE
    /\ ready = [h \in ReadyIds |-> IdleReady]
    /\ calls = 0
    /\ lastCall = <<>>
    /\ timerAfter = <<>>
    /\ lifeTicks = 0
    /\ liveTasks = 0

\* getStatus(): isOnline and serverCount
getStatus ==
    IF ~isReady \/ ~clientUser
    THEN [isOnline |-> FALSE, serverCount |-> 0]
    ELSE [isOnline |-> TRUE, serverCount |-> guildCount]

\* Mutant: start() logs in whether or not the token is set
startWithoutToken(tok, session) ==
    IF session \in {"created", "destroyed"} THEN "connecting" ELSE session

\* start(): without the token it warns and returns; with it, it awaits
\* this.client.login(token)
start(tok, session) ==
    IF ~tok THEN session
    ELSE IF session \in {"created", "destroyed"} THEN "connecting"
    ELSE session

Start ==
    /\ calls < MaxCalls
    /\ calls' = calls + 1
    /\ lastCall' = <<"start">>
    /\ client' = start(token, client)
    /\ UNCHANGED <<token, clientUser, guildCount, isReady, schedulerTask, ready,
                   timerAfter, lifeTicks, liveTasks>>

\* this.client.login(token) rejects: start() rethrows
LoginFails ==
    /\ client = "connecting"
    /\ client' = "created"
    /\ UNCHANGED <<token, clientUser, guildCount, isReady, schedulerTask, ready, calls,
                   lastCall, timerAfter, lifeTicks, liveTasks>>

\* The session becomes ready and the ClientReady handler runs up to its first
\* await: this.isReady = true; await this.syncAllServers(), which has read the
\* guilds of the cache and is fetching the first
ClientReady(h, n) ==
    /\ client = "connecting"
    /\ ready[h].pc = "idle"
    /\ \A g \in 1..(h - 1) : ready[g].pc # "idle"
    /\ client' = "connected"
    /\ clientUser' = TRUE
    /\ guildCount' = n
    /\ isReady' = TRUE
    /\ ready' = [ready EXCEPT ![h] = [pc |-> "awaitSync", sync |-> "running",
                                      guilds |-> n, load |-> "idle"]]
    /\ UNCHANGED <<token, schedulerTask, calls, lastCall, timerAfter, lifeTicks, liveTasks>>

\* syncAllServers: await this.syncServer(guild) for the next guild, errors
\* swallowed, or the loop is over and the call returns
SyncAllServers(h) ==
    /\ ready[h].sync = "running"
    /\ ready' = IF ready[h].guilds > 0
                THEN [ready EXCEPT ![h].guilds = @ - 1]
                ELSE [ready EXCEPT ![h].sync = "done"]
    /\ UNCHANGED <<token, client, clientUser, guildCount, isReady, schedulerTask, calls,
                   lastCall, timerAfter, lifeTicks, liveTasks>>

\* loadForwarders returns, having rebuilt the cache or logged the error
LoadForwarders(h) ==
    /\ ready[h].load = "running"
    /\ ready' = [ready EXCEPT ![h].load = "done"]
    /\ UNCHANGED <<token, client, clientUser, guildCount, isReady, schedulerTask, calls,
                   lastCall, timerAfter, lifeTicks, liveTasks>>

\* Mutant: the call is made and not awaited
NotAwaited(call) == TRUE

\* await: the handler goes on when the call it made has returned
Awaited(call) == call = "done"

\* The handler goes on after await this.syncAllServers(): await this.loadForwarders()
ReadyAfterSync(h) ==
    /\ ready[h].pc = "awaitSync"
    /\ Awaited(ready[h].sync)
    /\ ready' = [ready EXCEPT ![h].pc = "awaitLoad", ![h].load = "running"]
    /\ UNCHANGED <<token, client, clientUser, guildCount, isReady, schedulerTask, calls,
                   lastCall, timerAfter, lifeTicks, liveTasks>>

\* Mutant: the task the field holds is left running
startSchedulerWithoutStop(task, live) ==
    [schedulerTask |-> TRUE, liveTasks |-> live + 1]

\* startScheduler(): if (this.schedulerTask) this.schedulerTask.stop(); then
\* this.schedulerTask = cron.schedule(...)
startScheduler(task, live) ==
    [schedulerTask |-> TRUE, liveTasks |-> (IF task THEN live - 1 ELSE live) + 1]

\* The handler goes on after await this.loadForwarders(): this.startScheduler(),
\* which stops the task it finds and schedules a new one
ReadyAfterLoad(h) ==
    /\ ready[h].pc = "awaitLoad"
    /\ Awaited(ready[h].load)
    /\ schedulerTask' = startScheduler(schedulerTask, liveTasks).schedulerTask
    /\ liveTasks' = startScheduler(schedulerTask, liveTasks).liveTasks
    /\ timerAfter' = <<ready[h].sync, ready[h].load>>
    /\ ready' = [ready EXCEPT ![h] = IdleReady]
    /\ UNCHANGED <<token, client, clientUser, guildCount, isReady, calls, lastCall,
                   lifeTicks>>

\* Mutant: stop() leaves the cron task running
stopWithoutCancel(task) ==
    [effects |-> <<"destroy", "isReady">>, schedulerTask |-> task]

\* stop(): the statements in their order, and the task field they leave
stop(task) ==
    [effects |-> (IF task THEN <<"cancel">> ELSE <<>>) \o <<"destroy", "isReady">>,
     schedulerTask |-> FALSE]

\* stop() has no await: the whole of it is one step.  What client.destroy() does
\* to client.user and to the guild cache is the library's affair
Stop ==
    /\ calls < MaxCalls
    /\ calls' = calls + 1
    /\ lastCall' = <<"stop">> \o stop(schedulerTask).effects
    /\ schedulerTask' = stop(schedulerTask).schedulerTask
    /\ liveTasks' = IF Head(stop(schedulerTask).effects) = "cancel"
                    THEN liveTasks - 1 ELSE liveTasks
    /\ client' = "destroyed"
    /\ isReady' = FALSE
    /\ clientUser' \in {clientUser, FALSE}
    /\ guildCount' \in {guildCount, 0}
    /\ UNCHANGED <<token, ready, timerAfter, lifeTicks>>

\* The cron task calls back
LifeTick ==
    /\ liveTasks > 0
    /\ lifeTicks < MaxLifeTicks
    /\ lifeTicks' = lifeTicks + 1
    /\ UNCHANGED <<token, client, clientUser, guildCount, isReady, schedulerTask, ready,
                   calls, lastCall, timerAfter, liveTasks>>

----------------------------------------------------------------------------
(* The update that follows a delivery, for one due row at a time: lines 351-368
   of sendNotificationWithWorkingDays with calculateNextScheduledWithWorkingDays
   and findNextWorkingDay, over a whole year of schedules *)

CalcIdle ==
    /\ calcRow = <<>>
    /\ calcTick = 0
    /\ calcNow = 0
    /\ calcWorkingDays = {}
    /\ calcPc = "off"
    /\ calcPatch = <<>>

\* No loadForwarders call was made
ReloadIdle == issued = NULL

\* No toggle request is in progress; count is the number of requests so far
IdleToggle(count) == [pc |-> "idle", id |-> 0, isActive |-> FALSE, count |-> count]

ApiIdle == toggle = IdleToggle(0)

\* The minute boundaries of the days of one year
CalcSchedules ==
    {d * UnitsPerDay + m * UnitsPerMin : d \in 0..364, m \in 0..(MinsPerDay - 1)}

\* The cron callback that finds the row due begins at the scheduled minute, a
\* minute after it, or two days after it (the worker was down)
CalcLags == {0, UnitsPerMin, 2 * UnitsPerDay}

\* A row as createNotification stored it, due at the tick; the clock is read at
\* the tick or up to MaxDelay later, after the awaits of the fetch and the send.
\* Every set of working days is tried on the schedules of one week
CalcInit ==
    /\ \E rt \in RepeatTypes, sd \in CalcSchedules :
          calcRow = createNotification(
                        1,
                        [repeatType |-> rt, scheduleDate |-> sd, endDate |-> NULL] @@ UserInput,
                        sd)
    /\ calcTick \in {calcRow.scheduleDate + lag : lag \in CalcLags}
    /\ calcNow \in calcTick..(calcTick + MaxDelay)
    /\ calcWorkingDays \in SUBSET (0..6)
    /\ calcRow.repeatType # "working_days" => calcWorkingDays = DefaultWorkingDays
    /\ calcRow.repeatType = "working_days" => DayOf(calcRow.scheduleDate) \in 28..34
    /\ calcPc = "send"
    /\ calcPatch = <<>>

\* const now = new Date(); const nextScheduled = this.calculateNextScheduled...;
\* the patch of the update that follows
Calculate ==
    /\ calcPc = "send"
    /\ calcPatch' = RecurrencePatch(
                        calcRow,
                        calculateNextScheduledWithWorkingDays(calcRow, calcWorkingDays,
                                                              calcNow),
                        calcNow)
    /\ calcPc' = "done"
    /\ UNCHANGED <<calcRow, calcTick, calcNow, calcWorkingDays>>

----------------------------------------------------------------------------
(* The scheduler: cron callback -> processNotifications *)

TickIds == 1..MaxTicks

\* The model starts on Sunday 2023-01-29, half a minute after midnight
StartTime == 28 * UnitsPerDay + 1
MaxTime == StartTime + MaxElapsed

\* The rows were stored two days before the model starts
CreatedAt == StartTime - 2 * UnitsPerDay

\* What the API can have stored before the bot looks at it: a schedule two days
\* old (the worker was down) or a fresh one; no end, an early end, a late end
ScheduleDates == {StartTime - 2 * UnitsPerDay + UnitsPerMin, StartTime}
EndDates(scheduleDate) ==
    {NULL, Some(scheduleDate + UnitsPerDay), Some(scheduleDate + 7 * UnitsPerDay + 1)}
NotificationInputs ==
    {[repeatType |-> rt, scheduleDate |-> sd, endDate |-> ed] @@ UserInput :
        rt \in RepeatTypes, sd \in ScheduleDates, ed \in UNION {EndDates(x) : x \in ScheduleDates}}
ValidInputs == {i \in NotificationInputs : i.endDate \in EndDates(i.scheduleDate)}
\* Two rows due together: the first of any repeat type, the second a plain one
PairInputs ==
    {<<a, b>> \in ValidInputs \X ValidInputs :
        /\ a.endDate = NULL /\ a.scheduleDate = StartTime
        /\ b.endDate = NULL /\ b.scheduleDate = StartTime /\ b.repeatType \in {"once", "daily"}}
Tables ==
    {[id \in {1} |-> createNotification(id, i, CreatedAt)] : i \in ValidInputs}
    \cup {[id \in {1, 2} |-> createNotification(id, pr[id], CreatedAt)] : pr \in PairInputs}
WorkingDaySettings == {NULL, Some({})}

\* What Discord and the database can answer to one delivery attempt
Outcomes == {"noChannelData", "fetchThrows", "notSendable", "sendThrows", "sent"}
\* ... together with the answer to the update that follows a send
Attempts ==
    {[outcome |-> o, updOk |-> u] : o \in Outcomes, u \in BOOLEAN} \
        {[outcome |-> o, updOk |-> FALSE] : o \in Outcomes \ {"sent"}}

SchedInit ==
    /\ now = StartTime
    /\ rows \in Tables
    /\ settings \in WorkingDaySettings
    /\ logs = EmptyBag
    /\ sent = EmptyBag
    /\ pc = [p \in TickIds |-> "idle"]
    /\ due = [p \in TickIds |-> <<>>]
    /\ wdays = [p \in TickIds |-> {}]
    /\ today = [p \in TickIds |-> 0]
    /\ FwdIdle
    /\ MatchIdle
    /\ TopoIdle
    /\ LifeIdle
    /\ CalcIdle
    /\ ReloadIdle
    /\ ApiIdle

\* The run p is over: its locals are dropped
EndRun(p) ==
    /\ pc' = [pc EXCEPT ![p] = "idle"]
    /\ due' = [due EXCEPT ![p] = <<>>]
    /\ wdays' = [wdays EXCEPT ![p] = {}]
    /\ today' = [today EXCEPT ![p] = 0]

\* The for loop moves on to the next due row, or the run ends
NextRow(p) ==
    IF Tail(due[p]) = <<>> THEN EndRun(p)
    ELSE /\ due' = [due EXCEPT ![p] = Tail(due[p])]
         /\ UNCHANGED <<pc, wdays, today>>

\* The clock reaches a minute boundary and node-cron invokes the callback,
\* whether or not the promise of an earlier invocation has settled; the callback
\* awaits storage.getDueNotifications() and returns when nothing is due
CronFire(p) ==
    /\ pc[p] = "idle"
    /\ \A q \in TickIds : q < p => pc[q] # "idle"
    /\ now < MaxTime
    /\ (now + 1) % UnitsPerMin = 0
    /\ now' = now + 1
    /\ \E dbOk \in BOOLEAN :
         IF dbOk /\ DueIds(rows, now') # {}
         THEN \E order \in DueOrders(rows, now') :
                /\ due' = [due EXCEPT ![p] = order]
                /\ pc' = [pc EXCEPT ![p] = "settings"]
                /\ UNCHANGED <<wdays, today>>
         ELSE UNCHANGED <<pc, due, wdays, today>>
    /\ UNCHANGED <<rows, settings, logs, sent>>

\* const settings = await storage.getBotSettings(); workingDays; today
ReadSettings(p) ==
    /\ pc[p] = "settings"
    /\ \E dbOk \in BOOLEAN :
         IF dbOk
         THEN /\ wdays' = [wdays EXCEPT ![p] =
                              IF settings = NULL THEN DefaultWorkingDays ELSE Val(settings)]
              /\ today' = [today EXCEPT ![p] = getDay(now)]
              /\ pc' = [pc EXCEPT ![p] = "rows"]
              /\ UNCHANGED due
         ELSE EndRun(p)
    /\ UNCHANGED <<now, rows, settings, logs, sent>>

\* if (repeatType === "working_days" && !workingDays.includes(today))
TakesSkipBranch(n, workingDays, day) ==
    n.repeatType = "working_days" /\ day \notin workingDays

\* The working-days skip of one due row; a failing update leaves the for loop
\* through the catch of processNotifications
SkipRow(p, n, updOk) ==
    LET patch == SkipPatch(n, wdays[p], now)
    IN  /\ UNCHANGED <<logs, sent>>
        /\ IF updOk
           THEN /\ rows' = updateNotification(rows, n.id, patch, now)
                /\ NextRow(p)
           ELSE /\ UNCHANGED rows
                /\ EndRun(p)

\* sendNotificationWithWorkingDays for one due row
DeliverRow(p, n, outcome, updOk, logOk) ==
    LET next == calculateNextScheduledWithWorkingDays(n, wdays[p], now)
        patch == RecurrencePatch(n, next, now)
        failed == logNotificationResult(logs, n.id, "failed", logOk)
        success == logNotificationResult(logs, n.id, "success", logOk)
    IN  /\ NextRow(p)
        /\ IF outcome = "sent"
           THEN /\ sent' = sent (+) SetToBag({[notificationId |-> n.id,
                                               nextScheduled |-> n.nextScheduled]})
                /\ IF updOk
                   THEN /\ logs' = success
                        /\ rows' = updateNotification(rows, n.id, patch, now)
                   ELSE /\ logs' = logNotificationResult(success, n.id, "failed", logOk)
                        /\ UNCHANGED rows
           ELSE /\ logs' = failed
                /\ UNCHANGED <<rows, sent>>

\* One iteration of the for loop of processNotifications
ProcessRow(p) ==
    /\ pc[p] = "rows"
    /\ LET n == Head(due[p])
       IN  IF TakesSkipBranch(n, wdays[p], today[p])
           THEN \E updOk \in BOOLEAN : SkipRow(p, n, updOk)
           ELSE \E attempt \in Attempts, logOk \in BOOLEAN :
                    DeliverRow(p, n, attempt.outcome, attempt.updOk, logOk)
    /\ UNCHANGED <<now, settings>>

\* Time passes, also while a run is suspended at an await; at a minute boundary
\* without a callback the scheduler is not running
AdvanceTime ==
    /\ now < MaxTime
    /\ now' = now + 1
    /\ UNCHANGED <<rows, settings, logs, sent, pc, due, wdays, today>>

SchedNext ==
    \/ \E p \in TickIds : CronFire(p) /\ UNCHANGED <<fwdVars, matchVars, topoVars, lifeVars, calcVars, reloadVars, apiVars>>
    \/ \E p \in TickIds : ReadSettings(p) /\ UNCHANGED <<fwdVars, matchVars, topoVars, lifeVars, calcVars, reloadVars, apiVars>>
    \/ \E p \in TickIds : ProcessRow(p) /\ UNCHANGED <<fwdVars, matchVars, topoVars, lifeVars, calcVars, reloadVars, apiVars>>
    \/ AdvanceTime /\ UNCHANGED <<fwdVars, matchVars, topoVars, lifeVars, calcVars, reloadVars, apiVars>>

Spec == SchedInit /\ [][SchedNext]_vars

\* PATCH /api/notifications/:id/toggle up to its update: the route awaits
\* storage.getNotification(id) and answers 404 or 500 without it
ToggleRead(id) ==
    /\ toggle.pc = "idle"
    /\ toggle.count < MaxToggles
    /\ \E dbOk \in BOOLEAN :
          toggle' = IF dbOk /\ id \in DOMAIN rows
                    THEN [pc |-> "update", id |-> id, isActive |-> rows[id].isActive,
                          count |-> toggle.count + 1]
                    ELSE IdleToggle(toggle.count + 1)
    /\ UNCHANGED schedVars

\* storage.updateNotification(id, { isActive: !existingNotification.isActive })
ToggleUpdate ==
    /\ toggle.pc = "update"
    /\ toggle' = IdleToggle(toggle.count)
    /\ \E dbOk \in BOOLEAN :
          rows' = IF dbOk
                  THEN updateNotification(rows, toggle.id, [isActive |-> ~toggle.isActive], now)
                  ELSE rows
    /\ UNCHANGED <<now, settings, logs, sent, pc, due, wdays, today>>

\* The scheduler and the toggle route on the same table
ToggleNext ==
    \/ \E p \in TickIds : CronFire(p) /\ UNCHANGED <<fwdVars, matchVars, topoVars, lifeVars, calcVars, reloadVars, apiVars>>
    \/ \E p \in TickIds : ReadSettings(p) /\ UNCHANGED <<fwdVars, matchVars, topoVars, lifeVars, calcVars, reloadVars, apiVars>>
    \/ \E p \in TickIds : ProcessRow(p) /\ UNCHANGED <<fwdVars, matchVars, topoVars, lifeVars, calcVars, reloadVars, apiVars>>
    \/ AdvanceTime /\ UNCHANGED <<fwdVars, matchVars, topoVars, lifeVars, calcVars, reloadVars, apiVars>>
    \/ \E id \in {1, 2} : ToggleRead(id) /\ UNCHANGED <<fwdVars, matchVars, topoVars, lifeVars, calcVars, reloadVars>>
    \/ ToggleUpdate /\ UNCHANGED <<fwdVars, matchVars, topoVars, lifeVars, calcVars, reloadVars>>

ToggleSpec == SchedInit /\ [][ToggleNext]_vars

\* The scheduler at rest, for the runs of the forwarder cache alone
SchedIdle ==
    /\ now = StartTime
    /\ rows = <<>>
    /\ settings = NULL
    /\ logs = EmptyBag
    /\ sent = EmptyBag
    /\ pc = [p \in TickIds |-> "idle"]
    /\ due = [p \in TickIds |-> <<>>]
    /\ wdays = [p \in TickIds |-> {}]
    /\ today = [p \in TickIds |-> 0]

FwdInit == SchedIdle /\ FwdIdle /\ MatchIdle /\ TopoIdle /\ LifeIdle /\ CalcIdle /\ ReloadIdle /\ ApiIdle

FwdNext ==
    \/ \E id \in ForwarderIds, row \in ForwarderRows : ApiWrite(id, row) /\ UNCHANGED <<schedVars, matchVars, topoVars, lifeVars, calcVars, reloadVars, apiVars>>
    \/ \E l \in LoadIds : LoadStart(l) /\ UNCHANGED <<schedVars, matchVars, topoVars, lifeVars, calcVars, reloadVars, apiVars>>
    \/ \E l \in LoadIds : LoadFinish(l) /\ UNCHANGED <<schedVars, matchVars, topoVars, lifeVars, calcVars, reloadVars, apiVars>>
    \/ \E x \in HandlerIds, message \in Messages : MessageCreate(x, message) /\ UNCHANGED <<schedVars, matchVars, topoVars, lifeVars, calcVars, reloadVars, apiVars>>
    \/ \E x \in HandlerIds : ForwardStep(x) /\ UNCHANGED <<schedVars, matchVars, topoVars, lifeVars, calcVars, reloadVars, apiVars>>

FwdSpec == FwdInit /\ [][FwdNext]_vars

\* A second thread of the channel, which no rule is scoped to: the messages
\* posted in it, next to the messages of the channel and of the first thread
\* that are handled
SiblingThreadIds == {"t2"}

SiblingMessages ==
    {message \in Messages : ~Ignored(message)} \cup
    {[bot |-> FALSE, guild |-> TRUE, channel |-> t, isThread |-> TRUE,
      parentId |-> Some(ParentOf(t))] : t \in SiblingThreadIds}

\* Forwarding with the channel and two threads of it
SiblingNext ==
    \/ \E id \in ForwarderIds, row \in ForwarderRows : ApiWrite(id, row) /\ UNCHANGED <<schedVars, matchVars, topoVars, lifeVars, calcVars, reloadVars, apiVars>>
    \/ \E l \in LoadIds : LoadStart(l) /\ UNCHANGED <<schedVars, matchVars, topoVars, lifeVars, calcVars, reloadVars, apiVars>>
    \/ \E l \in LoadIds : LoadFinish(l) /\ UNCHANGED <<schedVars, matchVars, topoVars, lifeVars, calcVars, reloadVars, apiVars>>
    \/ \E x \in HandlerIds, message \in SiblingMessages : MessageCreate(x, message) /\ UNCHANGED <<schedVars, matchVars, topoVars, lifeVars, calcVars, reloadVars, apiVars>>
    \/ \E x \in HandlerIds : ForwardStep(x) /\ UNCHANGED <<schedVars, matchVars, topoVars, lifeVars, calcVars, reloadVars, apiVars>>

SiblingSpec == FwdInit /\ [][SiblingNext]_vars

\* The API writes forwarders and calls reloadForwarders() each time
ReloadNext ==
    \/ \E id \in ForwarderIds, row \in ForwarderRows : ApiWrite(id, row) /\ UNCHANGED <<schedVars, matchVars, topoVars, lifeVars, calcVars, reloadVars, apiVars>>
    \/ \E l \in ReloadIds : Issue(l) /\ UNCHANGED <<schedVars, matchVars, topoVars, lifeVars, calcVars, apiVars>>
    \/ \E l \in ReloadIds : LoadFinish(l) /\ UNCHANGED <<schedVars, matchVars, topoVars, lifeVars, calcVars, reloadVars, apiVars>>

ReloadSpecInit == SchedIdle /\ MatchIdle /\ TopoIdle /\ LifeIdle /\ CalcIdle /\ ReloadInit /\ ApiIdle

ReloadSpec == ReloadSpecInit /\ [][ReloadNext]_vars

\* The evaluation of one rule on one message, for every message and rule
MatchNext == EvaluateRule /\ UNCHANGED <<schedVars, fwdVars, topoVars, lifeVars, calcVars, reloadVars, apiVars>>

MatchSpecInit == SchedIdle /\ FwdIdle /\ MatchInit /\ TopoIdle /\ LifeIdle /\ CalcIdle /\ ReloadIdle /\ ApiIdle

MatchSpec == MatchSpecInit /\ [][MatchNext]_vars

\* The guild changes, the API refers to channel rows, and syncServer runs
TopoNext ==
    \/ \E c \in GuildChannelIds, kind \in ChannelKinds \cup {"none"} :
          GuildChange(c, kind) /\ UNCHANGED <<schedVars, fwdVars, matchVars, lifeVars, calcVars, reloadVars, apiVars>>
    \/ \E c \in GuildChannelIds : Reference(c) /\ UNCHANGED <<schedVars, fwdVars, matchVars, lifeVars, calcVars, reloadVars, apiVars>>
    \/ \E s \in SyncIds : SyncStep(s) /\ UNCHANGED <<schedVars, fwdVars, matchVars, lifeVars, calcVars, reloadVars, apiVars>>

TopoSpecInit == SchedIdle /\ FwdIdle /\ MatchIdle /\ TopoInit /\ LifeIdle /\ CalcIdle /\ ReloadIdle /\ ApiIdle

TopoSpec == TopoSpecInit /\ [][TopoNext]_vars

\* The bot is removed from the guild and added again: GuildDelete handlers next
\* to the syncServer calls of GuildCreate
GuildNext ==
    \/ \E c \in GuildChannelIds, kind \in ChannelKinds \cup {"none"} :
          GuildChange(c, kind) /\ UNCHANGED <<schedVars, fwdVars, matchVars, lifeVars, calcVars, reloadVars, apiVars>>
    \/ \E s \in SyncIds : SyncStep(s) /\ UNCHANGED <<schedVars, fwdVars, matchVars, lifeVars, calcVars, reloadVars, apiVars>>
    \/ \E m \in MarkIds : MarkStep(m) /\ UNCHANGED <<schedVars, fwdVars, matchVars, lifeVars, calcVars, reloadVars, apiVars>>

GuildSpecInit == SchedIdle /\ FwdIdle /\ MatchIdle /\ TopoInit /\ LifeIdle /\ CalcIdle /\ ReloadIdle /\ ApiIdle

GuildSpec == GuildSpecInit /\ [][GuildNext]_vars

\* Two syncServer calls of one guild run at once, the platform and the
\* repository being available and the guild staying as it is
PairNext ==
    \E s \in PairIds : SyncStep(s) /\ ~Outage(s) /\ UNCHANGED <<schedVars, fwdVars, matchVars, lifeVars, calcVars, reloadVars, apiVars>>

PairSpecInit == SchedIdle /\ FwdIdle /\ MatchIdle /\ PairInit /\ LifeIdle /\ CalcIdle /\ ReloadIdle /\ ApiIdle

PairSpec == PairSpecInit /\ [][PairNext]_vars

OtherIdle == UNCHANGED <<schedVars, fwdVars, matchVars, topoVars, calcVars, reloadVars, apiVars>>

\* start() and stop() are called, the session connects, the handler and its calls
\* go on, the cron task calls back
LifeNext ==
    \/ Start /\ OtherIdle
    \/ LoginFails /\ OtherIdle
    \/ \E h \in ReadyIds, n \in 0..MaxGuilds : ClientReady(h, n) /\ OtherIdle
    \/ \E h \in ReadyIds : SyncAllServers(h) /\ OtherIdle
    \/ \E h \in ReadyIds : LoadForwarders(h) /\ OtherIdle
    \/ \E h \in ReadyIds : ReadyAfterSync(h) /\ OtherIdle
    \/ \E h \in ReadyIds : ReadyAfterLoad(h) /\ OtherIdle
    \/ Stop /\ OtherIdle
    \/ LifeTick /\ OtherIdle

LifeSpecInit == SchedIdle /\ FwdIdle /\ MatchIdle /\ TopoIdle /\ LifeInit /\ CalcIdle /\ ReloadIdle /\ ApiIdle

LifeSpec == LifeSpecInit /\ [][LifeNext]_vars

CalcSpecInit == SchedIdle /\ FwdIdle /\ MatchIdle /\ TopoIdle /\ LifeIdle /\ CalcInit /\ ReloadIdle /\ ApiIdle

CalcNext == Calculate /\ UNCHANGED <<schedVars, fwdVars, matchVars, topoVars, lifeVars, reloadVars, apiVars>>

CalcSpec == CalcSpecInit /\ [][CalcNext]_vars

----------------------------------------------------------------------------
(* Steps of a run, as the properties below see them *)

\* Run p handles the head of its due list in this step
Handling(p) == pc[p] = "rows" /\ due'[p] # due[p]

\* ... in the working-days skip branch
Skips(p) ==
    /\ Handling(p)
    /\ Head(due[p]).repeatType = "working_days"
    /\ today[p] \notin wdays[p]

\* ... by attempting a delivery
Fires(p) == Handling(p) /\ ~Skips(p)

Recurring(r) == r.repeatType # "once"

----------------------------------------------------------------------------
(* Notification scheduler: properties *)

\* C1 (N1): no notification row is active with nextScheduled = null, in any state
\* the scheduler reaches from rows made by createNotification, for any due set,
\* repeat type, endDate and send outcome.
C1_ActiveInvariant ==
    \A id \in DOMAIN rows : ~(rows[id].isActive /\ rows[id].nextScheduled = NULL)

\* A recurring row was delivered and ended by its endDate
C1_Witness ==
    \E id \in DOMAIN rows :
        /\ Recurring(rows[id])
        /\ rows[id].lastSent # NULL
        /\ ~rows[id].isActive
        /\ rows[id].nextScheduled = NULL

\* C2: a once row is inactive after it was fired, whether the send succeeded or
\* failed.
C2_OnceInactiveAfterFire ==
    [][\A p \in TickIds :
          Fires(p) /\ Head(due[p]).repeatType = "once"
              => ~rows'[Head(due[p]).id].isActive]_vars

C4_NextWithinEnd ==
    \A id \in DOMAIN rows :
        rows[id].endDate # NULL /\ rows[id].nextScheduled # NULL
            => Val(rows[id].nextScheduled) <= Val(rows[id].endDate)

\* C5: a non-null nextScheduled that a step of the scheduler stores (after a
\* delivery or in the working-days skip) is strictly later than the clock at that
\* step, hence than the time of the tick.
C5_NextAfterTick ==
    [][\A id \in DOMAIN rows :
          rows'[id].nextScheduled # rows[id].nextScheduled /\ rows'[id].nextScheduled # NULL
              => Val(rows'[id].nextScheduled) > now']_vars

\* A row whose schedule was days old has been delivered and moved forward
C5_Witness ==
    \E id \in DOMAIN rows :
        /\ rows[id].scheduleDate < StartTime
        /\ rows[id].lastSent # NULL
        /\ rows[id].nextScheduled # NULL
        /\ Val(rows[id].nextScheduled) > now

\* C6: no two runs of processNotifications are in progress at the same time.
C6_NoOverlap == Cardinality({p \in TickIds : pc[p] # "idle"}) <= 1

\* C7: once a tick has fired a due row, however old its schedule, the row is not
\* due any more: its nextScheduled is in the future or the row is inactive.
C7_NoBackfill ==
    [][\A p \in TickIds :
          Fires(p) => ~IsDue(rows'[Head(due[p]).id], now')]_vars

\* C8: the working-days skip sends nothing, logs nothing, leaves isActive and
\* lastSent alone, and the nextScheduled it stores is the first day after today
\* whose weekday is a working day, at the hour and minute of scheduleDate.
C8_WorkingDaysSkip ==
    [][\A p \in TickIds :
          LET n == Head(due[p])
              todayDate == DayOf(now) - ((getDay(now) + 7 - today[p]) % 7)
              days == {d \in (todayDate + 1)..(todayDate + 7) : (d % 7) \in wdays[p]}
              first == CHOOSE d \in days : \A e \in days : d <= e
          IN  Skips(p)
                  => /\ logs' = logs
                     /\ sent' = sent
                     /\ rows'[n.id].isActive = rows[n.id].isActive
                     /\ rows'[n.id].lastSent = rows[n.id].lastSent
                     /\ days # {} /\ rows'[n.id] # rows[n.id]
                          => rows'[n.id].nextScheduled =
                               Some(first * UnitsPerDay
                                    + MinuteOfDay(n.scheduleDate) * UnitsPerMin)]_vars

\* C9: whatever happens while a run handles one due row, the rows after it in the
\* due list are still handled by that run.
C9_FailureIsolation ==
    [][\A p \in TickIds : Handling(p) => due'[p] = Tail(due[p])]_vars

\* What a reader of this.forwarderCache sees: key -> list
CacheView == [k \in DOMAIN forwarderCache |-> heap[forwarderCache[k]]]

\* The candidates of a message under a cache view
CandidatesOf(view, message) ==
    LET At(k) == IF k \in DOMAIN view THEN view[k] ELSE <<>>
    IN  IF message.isThread
        THEN At(ThreadKey(message.channel)) \o At(ChannelKey(Val(message.parentId)))
        ELSE At(ChannelKey(message.channel))

\* C10: the cache a handler can read only ever changes from one complete cache to
\* the complete cache of the result a loadForwarders call was awaiting, so a
\* MessageCreate handler selects its candidates from the complete cache before or
\* after a reload, never from a cleared or partly rebuilt one; and the candidate
\* list a handler took is not changed by a reload while the message is forwarded.
C10_AtomicReload ==
    [][/\ CacheView' # CacheView =>
            \E l \in LoadIds :
                /\ loads[l].pc = "await" /\ loads[l].ok /\ loads'[l].pc = "idle"
                /\ CacheView' = CompleteCache(loads[l].result)
       /\ \A x \in HandlerIds :
            handlers'[x].pc = "loop" =>
                /\ heap'[handlers'[x].ref] = handlers'[x].taken
                /\ handlers[x].pc = "idle" =>
                      handlers'[x].taken = CandidatesOf(CacheView, handlers'[x].message)]_vars

\* A handler of a channel message is in its loop on the array it took from the
\* cache, and a reload has since put another list under the same key
C10_Witness ==
    \E x \in HandlerIds :
        /\ handlers[x].pc = "loop"
        /\ ~handlers[x].message.isThread
        /\ handlers[x].i > 1
        /\ ChannelKey(handlers[x].message.channel) \in DOMAIN forwarderCache
        /\ forwarderCache[ChannelKey(handlers[x].message.channel)] # handlers[x].ref
        /\ CacheView[ChannelKey(handlers[x].message.channel)] # handlers[x].taken

\* C11: a MessageCreate event whose author is a bot forwards nothing, writes no
\* forwarder log row and starts no evaluation, whatever the cache holds; so every
\* forward and every log row is made for a message whose author is not a bot.
C11_BotFilter ==
    [][/\ \A message \in Messages :
            message.bot /\ inbox' = Append(inbox, message) =>
                /\ fwdLogs' = fwdLogs
                /\ forwarded' = forwarded
                /\ handlers' = handlers
       /\ \A x \in HandlerIds : handlers'[x].pc = "loop" => ~handlers'[x].message.bot]_vars

\* A bot's message in a guild channel has arrived while the cache held candidates
\* for that channel, and nothing was forwarded or logged
C11_Witness ==
    /\ inbox # <<>>
    /\ inbox[Len(inbox)].bot
    /\ inbox[Len(inbox)].guild
    /\ CandidatesOf(CacheView, inbox[Len(inbox)]) # <<>>
    /\ fwdLogs = EmptyBag
    /\ forwarded = EmptyBag
    /\ \A x \in HandlerIds : handlers[x].pc = "idle"

\* The words of a string: its maximal runs of word characters, in lower case
RECURSIVE WordsFrom(_, _)
WordsFrom(str, word) ==
    LET done == IF word = <<>> THEN <<>> ELSE <<word>>
    IN  IF str = <<>> THEN done
        ELSE IF IsWordChar(Head(str))
             THEN WordsFrom(Tail(str), word \o toLowerCase(<<Head(str)>>))
        ELSE done \o WordsFrom(Tail(str), <<>>)

Words(str) == WordsFrom(str, <<>>)

\* The sequence part occurs in the sequence whole without gaps
OccursIn(part, whole) ==
    \E first \in 1..(Len(whole) + 1) :
        /\ first + Len(part) - 1 <= Len(whole)
        /\ SubSeq(whole, first, first + Len(part) - 1) = part

C13_ContainsMatching ==
    matchPc = "done" /\ matchType = "contains" /\ Len(keywords) = 1
    /\ keywords[1] # <<>> =>
        (matchedKeyword # NULL <=> includes(toLowerCase(content), toLowerCase(keywords[1])))

\* C14: an exact rule with one keyword that has at least one word forwards exactly
\* when the words of the keyword occur, in order and without gaps, among the
\* words of the message; a keyword that is only part of a word does not match.
C14_ExactMatching ==
    matchPc = "done" /\ matchType = "exact" /\ Len(keywords) = 1
    /\ Words(keywords[1]) # <<>> =>
        (matchedKeyword # NULL <=> OccursIn(Words(keywords[1]), Words(content)))

\* A keyword of two words matches a message in other case with punctuation between
\* the words
C14_Witness ==
    /\ matchPc = "done"
    /\ matchType = "exact"
    /\ Len(keywords) = 1
    /\ Len(Words(keywords[1])) = 2
    /\ \E i \in 1..Len(content) : content[i] = "!"
    /\ \E i \in 1..Len(content) : content[i] = "A"
    /\ matchedKeyword # NULL

\* C15: when syncChannels is about to return and neither the platform nor the
\* repository was unavailable during the call, the channel rows of the server are
\* exactly the text and announcement channels the call fetched from the guild
C15_TopologyConvergence ==
    \A s \in SyncIds :
        syncs[s].pc \in {"end", "catch"} =>
            DOMAIN channelRows = TextLikeIds(syncs[s].channels)

\* C16: once a call ran undisturbed and the guild is as it was then, no step of a
\* later call creates or deletes a row or changes a field of the server row or of
\* a channel row other than the update timestamp
C16_IdempotentTopology ==
    [][cleanRuns = 1 /\ syncs' # syncs =>
          /\ WithoutTimestamps(channelRows') = WithoutTimestamps(channelRows)
          /\ serverRow # NULL
          /\ serverRow' # NULL
          /\ Val(serverRow').isConnected = Val(serverRow).isConnected]_vars

\* A second call has gone through both loops and has rewritten a channel row
C16_Witness ==
    /\ cleanRuns = 1
    /\ \E s \in SyncIds :
          /\ syncs[s].pc = "end"
          /\ syncs[s].clean
          /\ \E c \in DOMAIN channelRows : channelRows[c].updatedAt = 2

\* C17: in every run of the ClientReady handler loadForwarders is called only when
\* syncAllServers has returned, the cron task is started only when both have
\* returned, and the cron task calls back only when it was started like that
C17_StartupOrdering ==
    [][/\ \A h \in ReadyIds :
            ready'[h].load = "running" => ready'[h].sync = "done"
       /\ schedulerTask' => timerAfter' = <<"done", "done">>
       /\ lifeTicks' # lifeTicks => schedulerTask /\ timerAfter = <<"done", "done">>]_vars

\* The cron task has called back after a startup that synced at least one guild
C17_Witness ==
    /\ lifeTicks > 0
    /\ schedulerTask
    /\ guildCount > 0
    /\ timerAfter = <<"done", "done">>

\* C18: a stop() leaves no running cron task and an offline status, cancels a
\* running cron task before it destroys the client, and the status stays offline
\* for as long as stop() is the last call
C18_StopOrdering ==
    [][/\ calls' # calls /\ Head(lastCall') = "stop" =>
            /\ ~schedulerTask'
            /\ schedulerTask =>
                  \E i, j \in DOMAIN lastCall' :
                      i < j /\ lastCall'[i] = "cancel" /\ lastCall'[j] = "destroy"
       /\ lastCall' # <<>> /\ Head(lastCall') = "stop" => ~getStatus'.isOnline]_vars

\* stop() was called on an online bot whose cron task was running
C18_Witness ==
    /\ lastCall = <<"stop", "cancel", "destroy", "isReady">>
    /\ lifeTicks > 0
    /\ ~getStatus.isOnline

\* C19: without the token nothing ever logs in, no ClientReady handler and no
\* cron task runs, and getStatus() reports offline with no servers
C19_MissingToken ==
    ~token =>
        /\ client \notin {"connecting", "connected"}
        /\ ~schedulerTask
        /\ lifeTicks = 0
        /\ \A h \in ReadyIds : ready[h] = IdleReady
        /\ getStatus = [isOnline |-> FALSE, serverCount |-> 0]

\* start() has returned in an environment without the token
C19_Witness ==
    /\ ~token
    /\ lastCall = <<"start">>
    /\ client = "created"

\* C20: a message that arrives after a loadForwarders call has rebuilt the cache
\* gets its candidates from the cache of the result the last rebuild was made
\* from: the handler starts its loop on exactly those candidates, and starts no
\* loop exactly when there are none
C20_ReloadVisibility ==
    [][\A message \in Messages :
          inbox' = Append(inbox, message) /\ ~Ignored(message) =>
              IF CandidatesOf(installed, message) = <<>>
              THEN handlers' = handlers
              ELSE \E x \in HandlerIds :
                      /\ handlers[x].pc = "idle"
                      /\ handlers'[x].pc = "loop"
                      /\ handlers'[x].message = message
                      /\ handlers'[x].taken = CandidatesOf(installed, message)]_vars

\* A handler has started on the candidates of the last rebuild while the table
\* has changed since and the next reload is still awaiting the repository
C20_Witness ==
    \E x \in HandlerIds, l \in LoadIds :
        /\ handlers[x].pc = "loop"
        /\ handlers[x].i = 1
        /\ handlers[x].taken = CandidatesOf(installed, handlers[x].message)
        /\ loads[l].pc = "await"
        /\ loads[l].ok
        /\ CompleteCache(loads[l].result) # installed
        /\ CandidatesOf(CompleteCache(loads[l].result), handlers[x].message)
              # handlers[x].taken

\* C21: when the delivery of a due recurring row sends nothing and appends one
\* failed log row (the destination channel is not resolved or cannot be sent to),
\* the same step advances the row's nextScheduled, so that the row is not due at
\* the tick one minute later.
C21_NotFoundRecovery ==
    [][\A p \in TickIds :
          LET n == Head(due[p])
          IN  /\ Fires(p)
              /\ Recurring(n)
              /\ sent' = sent
              /\ logs' = logs (+) SetToBag({LogRow(n.id, "failed")})
              => /\ rows'[n.id].nextScheduled # rows[n.id].nextScheduled
                 /\ ~IsDue(rows'[n.id], now' + UnitsPerMin)]_vars

----------------------------------------------------------------------------
(* Recurrence arithmetic: properties *)

\* C22: a daily row with nextScheduled = T that is delivered by the tick at T is
\* updated to nextScheduled = T + 1 day and lastSent = T (a weekly row: T + 7
\* days), whatever the time the delivery took.
C22_KeepsClockTime ==
    LET T == Val(calcRow.nextScheduled)
        period == IF calcRow.repeatType = "daily" THEN 1 ELSE 7
    IN  /\ calcPc = "done"
        /\ calcRow.repeatType \in {"daily", "weekly"}
        /\ calcTick = T
        => /\ calcPatch.nextScheduled = Some(AddDays(T, period))
           /\ calcPatch.lastSent = Some(T)

\* The day within its month, from 0, of a day of the year
RECURSIVE DayInMonthFrom(_, _)
DayInMonthFrom(dayOfYear, m) ==
    IF dayOfYear < MonthLengths[m] THEN dayOfYear
    ELSE DayInMonthFrom(dayOfYear - MonthLengths[m], (m % 12) + 1)

DayInMonth(t) == DayInMonthFrom(DayOf(t) % 365, 1)

\* The same day-of-month in the month after t's, or that month's last day when it
\* is shorter, at t's clock time
ClampedNextMonth(t) ==
    LET following == (MonthOf(t) % 12) + 1
        day == IF DayInMonth(t) < MonthLengths[following] THEN DayInMonth(t)
               ELSE MonthLengths[following] - 1
    IN  AddDays(t, MonthLengths[MonthOf(t)] - DayInMonth(t) + day)

\* C23: the nextScheduled of a delivered monthly row is the base's day-of-month
\* in the following month at the base's clock time, or the last day of the
\* following month when that month has no such day; never a day of the month
\* after.
C23_MonthlyClamp ==
    calcPc = "done" /\ calcRow.repeatType = "monthly" =>
        calcPatch.nextScheduled = Some(ClampedNextMonth(CurrentBase(calcRow, calcNow)))

\* C24: the nextScheduled of a delivered working_days row is the first day
\* strictly after base = max(nextScheduled, now) whose weekday is a working day,
\* at base's clock time, for every non-empty set of working days and every
\* weekday of base.
C24_WorkingDaysAdvance ==
    LET T == Val(calcRow.nextScheduled)
        base == IF T > calcNow THEN T ELSE calcNow
        days == {d \in (DayOf(base) + 1)..(DayOf(base) + 7) : (d % 7) \in calcWorkingDays}
        first == CHOOSE d \in days : \A e \in days : d <= e
    IN  /\ calcPc = "done"
        /\ calcRow.repeatType = "working_days"
        /\ calcWorkingDays # {}
        => calcPatch.nextScheduled = Some(first * UnitsPerDay + (base % UnitsPerDay))

\* A row delivered on a Friday with working days Monday to Friday moves to the
\* Monday, at the second and minute the clock showed after the send
C24_Witness ==
    /\ calcPc = "done"
    /\ calcRow.repeatType = "working_days"
    /\ calcWorkingDays = DefaultWorkingDays
    /\ getDay(calcNow) = 5
    /\ calcNow > calcTick
    /\ calcPatch.nextScheduled = Some(AddDays(calcNow, 3))

\* C25: with an empty set of working days the skip of a due working_days row
\* stores tomorrow, at the hour and minute of scheduleDate, as nextScheduled.
C25_EmptyWorkingDays ==
    [][\A p \in TickIds :
          LET n == Head(due[p])
          IN  Skips(p) /\ wdays[p] = {} /\ rows'[n.id] # rows[n.id]
                  => rows'[n.id].nextScheduled =
                        Some(SetClock(AddDays(now, 1), n.scheduleDate))]_vars

\* C26: every step that changes a notification row changes a row that is active,
\* and leaves it either active with a later nextScheduled or inactive with
\* nextScheduled = null; so no step writes to an inactive row or makes one
\* active again.
C26_RowStateMachine ==
    [][\A id \in DOMAIN rows :
          rows'[id] # rows[id] =>
              /\ rows[id].isActive
              /\ \/ /\ rows'[id].isActive
                    /\ rows[id].nextScheduled # NULL
                    /\ rows'[id].nextScheduled # NULL
                    /\ Val(rows'[id].nextScheduled) > Val(rows[id].nextScheduled)
                 \/ /\ ~rows'[id].isActive
                    /\ rows'[id].nextScheduled = NULL]_vars

\* The columns the scheduler may write
SchedulerColumns == {"lastSent", "nextScheduled", "isActive", "updatedAt"}

\* C27: no step changes a notification's scheduleDate, repeatType, endDate,
\* message, channelId, serverId, userId or mentions flag (or its id): a step
\* changes lastSent, nextScheduled, isActive and the update timestamp at most.
C27_SchedulerWrites ==
    [][/\ DOMAIN rows' = DOMAIN rows
       /\ \A id \in DOMAIN rows :
            /\ DOMAIN rows'[id] = DOMAIN rows[id]
            /\ \A column \in DOMAIN rows[id] \ SchedulerColumns :
                  rows'[id][column] = rows[id][column]]_vars

\* One row was moved by the working-days skip and another was delivered and ended
C27_Witness ==
    \E id, other \in DOMAIN rows :
        /\ rows[id].repeatType = "working_days"
        /\ rows[id].lastSent = NULL
        /\ rows[id].nextScheduled # Some(rows[id].scheduleDate)
        /\ rows[other].lastSent # NULL
        /\ ~rows[other].isActive

\* C28: the only thing that can fail once a notification has been sent is the
\* repository (the log insert, the row update), and a repository error produces
\* no notification log row: a step that sends a notification appends no failed
\* row, and no step other than a delivery attempt appends a row at all.
C28_RepositoryErrors ==
    [][/\ \A p \in TickIds :
            Fires(p) /\ sent' # sent =>
                \A id \in DOMAIN rows :
                    CopiesIn(LogRow(id, "failed"), logs') = CopiesIn(LogRow(id, "failed"), logs)
       /\ logs' # logs => \E p \in TickIds : Fires(p)]_vars

----------------------------------------------------------------------------
(* Forwarding: properties *)

\* The rules cached under a key when a message arrives
RulesUnder(key) ==
    IF key \in DOMAIN forwarderCache THEN heap[forwarderCache[key]] ELSE <<>>

\* C29: the candidate rules of a message posted in a thread are the rules cached
\* under thread:{thread id} followed by those under channel:{parent channel id},
\* and those of a message posted in a channel are the rules cached under
\* channel:{channel id}: the handler goes through exactly these, and through
\* none when there is none.
C29_CandidateSelection ==
    [][\A message \in Messages :
          LET expected ==
                IF message.isThread
                THEN RulesUnder(ThreadKey(message.channel))
                        \o RulesUnder(ChannelKey(Val(message.parentId)))
                ELSE RulesUnder(ChannelKey(message.channel))
          IN  inbox' = Append(inbox, message) /\ ~Ignored(message) =>
                  \/ expected = <<>> /\ handlers' = handlers
                  \/ /\ expected # <<>>
                     /\ \E x \in HandlerIds :
                           /\ handlers[x].pc = "idle"
                           /\ handlers'[x].pc = "loop"
                           /\ handlers'[x].i = 1
                           /\ heap'[handlers'[x].ref] = expected]_vars

\* A thread message is being forwarded by the rule of its thread and then by the
\* rule of the parent channel
C29_Witness ==
    \E x \in HandlerIds :
        /\ handlers[x].pc = "loop"
        /\ handlers[x].message.isThread
        /\ Len(handlers[x].taken) = 2
        /\ handlers[x].taken[1].sourceThreadId = Some(handlers[x].message.channel)
        /\ handlers[x].taken[2].sourceThreadId = NULL
        /\ handlers[x].taken[2].sourceChannel = handlers[x].message.parentId

\* C30: each matching rule of one inbound message produces exactly one
\* ForwarderLog row, success or failed, and at most one forwarded message, and
\* an error in one rule does not keep the following rules from being evaluated.
\* In every iteration of the handler's loop: at most one message is sent and it
\* is this rule's; at most one row is logged and it is this rule's; a message
\* is sent exactly when a success row is logged; a failed row comes without a
\* message; and the loop goes on to the next candidate, or ends after the last.
C30_PerRuleIndependence ==
    [][\A x \in HandlerIds :
          /\ handlers[x].pc = "loop"
          /\ handlers'[x].pc # "loop" \/ handlers'[x].i # handlers[x].i
          =>
          LET list == handlers[x].taken
              i == handlers[x].i
              message == [forwarderId |-> list[i].id,
                          channel |-> handlers[x].message.channel]
              success == [forwarderId |-> list[i].id, status |-> "success"]
              failed == [forwarderId |-> list[i].id, status |-> "failed"]
              sends == BagCardinality(forwarded') - BagCardinality(forwarded)
              logged == BagCardinality(fwdLogs') - BagCardinality(fwdLogs)
              ok == CopiesIn(success, fwdLogs') - CopiesIn(success, fwdLogs)
              ko == CopiesIn(failed, fwdLogs') - CopiesIn(failed, fwdLogs)
          IN  /\ sends \in {0, 1}
              /\ sends = CopiesIn(message, forwarded') - CopiesIn(message, forwarded)
              /\ logged \in {0, 1}
              /\ logged = ok + ko
              /\ sends = 1 <=> ok = 1
              /\ ko = 1 => sends = 0
              /\ IF i < Len(list)
                 THEN handlers'[x] = [handlers[x] EXCEPT !.i = i + 1]
                 ELSE handlers'[x].pc = "idle"]_vars

\* C31: after loadForwarders, for every cached forwarder that has a
\* sourceThreadId the cache also holds the key channel:{its source channel},
\* possibly with an empty list.
C31_ParentEntry ==
    \A k \in DOMAIN forwarderCache :
        \A i \in 1..Len(heap[forwarderCache[k]]) :
            LET forwarder == heap[forwarderCache[k]][i]
            IN  forwarder.sourceThreadId # NULL =>
                    ChannelKey(Val(forwarder.sourceChannel)) \in DOMAIN forwarderCache

----------------------------------------------------------------------------
(* Guilds left and joined again, concurrent syncs: properties *)

\* C32: a GuildDelete event sets isConnected = false on the guild's server row
\* and changes nothing else: no step of its handler creates or deletes a server
\* row or a channel row or changes a channel row, and the update it completes
\* leaves the row with its id and isConnected = false.  No step at all removes
\* the server row or gives it another id, and the syncServer call of the bot's
\* return writes isConnected = true on that row without creating a second one.
C32_GuildDeleteFrame ==
    [][/\ marks' # marks =>
            /\ channelRows' = channelRows
            /\ serverSeq' = serverSeq
            /\ serverRow = NULL => serverRow' = NULL
            /\ serverRow' # serverRow =>
                  serverRow' # NULL /\ ~Val(serverRow').isConnected
            /\ \A m \in MarkIds :
                  marks[m].pc = "update" /\ marks'[m].pc = "end" =>
                      serverRow' # NULL /\ ~Val(serverRow').isConnected
       /\ serverRow # NULL =>
            /\ serverRow' # NULL
            /\ Val(serverRow').id = Val(serverRow).id
            /\ serverSeq' = serverSeq
            /\ \A s \in SyncIds :
                  syncs[s].pc = "writeServer" /\ syncs'[s].pc = "fetchChannels" =>
                      Val(serverRow').isConnected]_vars

\* The handler of a GuildDelete event has marked the row of a server whose
\* channels were synced before: the channel rows are still there
C32_Witness ==
    /\ \E m \in MarkIds : marks[m].pc = "end" /\ marks[m].found
    /\ serverRow # NULL
    /\ ~Val(serverRow).isConnected
    /\ Val(serverRow).id = 1
    /\ channelRows # <<>>

----------------------------------------------------------------------------
(* Lifecycle under interleavings: properties *)

\* C33: once stop() has returned and until start() is called again, no cron task
\* exists and no tick starts, also when stop() was called while the ClientReady
\* handler was awaiting syncAllServers or loadForwarders.
C33_StopIsFinal ==
    [][/\ lastCall' # <<>> /\ Head(lastCall') = "stop" => ~schedulerTask'
       /\ lastCall # <<>> /\ Head(lastCall) = "stop" => lifeTicks' = lifeTicks]_vars

----------------------------------------------------------------------------
(* Overlapping reloads: properties *)

\* The rules a cache holds under each key, whatever their order
RuleSets(view) == [k \in DOMAIN view |-> {view[k][i] : i \in 1..Len(view[k])}]

\* C34: when several reloadForwarders() calls are in flight and their reads
\* complete in any order, once all have finished the cache holds, under each
\* key, the rules of the read that was issued last and no others.
C34_ReloadsConverge ==
    /\ \A l \in DOMAIN loads : loads[l].pc = "idle"
    /\ issued # NULL
    /\ Val(issued).ok
    => RuleSets(CacheView) = RuleSets(CompleteCache(Val(issued).result))

----------------------------------------------------------------------------
(* The toggle route next to the scheduler: properties *)

\* C35: toggling a notification through PATCH /api/notifications/:id/toggle, in
\* any sequence with scheduler ticks, never leaves a row with isActive = true and
\* nextScheduled = null: a row without a next fire time is inactive.
C35_ToggleKeepsN1 ==
    \A id \in DOMAIN rows : rows[id].nextScheduled = NULL => ~rows[id].isActive

----------------------------------------------------------------------------
(* Notification logs: properties *)

\* C36: each time a due row is processed and not skipped by the working-days
\* rule, exactly one notification log row is appended for it, success or failed
\* and never both, whatever step fails.
C36_OneLogPerAttempt ==
    [][\A p \in TickIds :
          Fires(p) =>
              LET id == Head(due[p]).id
                  ok == CopiesIn(LogRow(id, "success"), logs')
                            - CopiesIn(LogRow(id, "success"), logs)
                  ko == CopiesIn(LogRow(id, "failed"), logs')
                            - CopiesIn(LogRow(id, "failed"), logs)
              IN  /\ ok + ko = 1
                  /\ BagCardinality(logs') = BagCardinality(logs) + 1]_vars

----------------------------------------------------------------------------
(* Cron tasks: properties *)

\* C37: after any sequence of Ready events, start() and stop() calls at most one
\* cron task is live, and it is the one the field schedulerTask holds:
\* startScheduler stops the task it finds before it registers a new one.
C37_OneSchedulerTask ==
    /\ liveTasks <= 1
    /\ liveTasks = 1 <=> schedulerTask

\* A cron task is running and has called back while the ClientReady handler of
\* a later login is about to call startScheduler, which will find that task
C37_Witness ==
    /\ liveTasks = 1
    /\ lifeTicks > 0
    /\ calls >= 3
    /\ timerAfter = <<"done", "done">>
    /\ lastCall = <<"start">>
    /\ \E h \in ReadyIds : ready[h].pc = "awaitLoad"

----------------------------------------------------------------------------
(* Concurrent syncs: properties *)

\* C38: when two syncServer calls of one guild have run, concurrently or not,
\* and both have finished, there is exactly one server row for the guild and the
\* channel rows are exactly the guild's text and announcement channels: none is
\* missing and none is left over.
C38_ConcurrentSyncs ==
    /\ syncRuns = 2
    /\ \A s \in DOMAIN syncs : syncs[s].pc = "idle"
    => /\ serverRow # NULL
       /\ serverSeq = 1
       /\ DOMAIN channelRows = TextLikeIds(guildChannels)

\* ---------------------------------------------------------------------------
\* A load that fails: properties
\* ---------------------------------------------------------------------------

\* C39: when getActiveForwarders() fails during loadForwarders, the call returns
\* with the forwarder cache exactly as it was before the call, and nothing but
\* the call itself is affected: the handlers in flight go on as they were.
C39_FailedLoadKeepsCache ==
    [][\A l \in DOMAIN loads :
          /\ loads[l].pc = "await"
          /\ ~loads[l].ok
          /\ loads'[l] # loads[l]
          => /\ loads'[l] = IdleLoad
             /\ forwarderCache' = forwarderCache
             /\ heap' = heap
             /\ CacheView' = CacheView
             /\ installed' = installed
             /\ handlers' = handlers]_vars

\* A load has failed while the cache holds rules
C39_Witness ==
    \E l \in DOMAIN loads :
        /\ loads[l].pc = "await"
        /\ ~loads[l].ok
        /\ \E k \in DOMAIN CacheView : CacheView[k] # <<>>

\* ---------------------------------------------------------------------------
\* Rules of a thread and rules of its channel: properties
\* ---------------------------------------------------------------------------

\* The rules the cache holds, under whatever key
CachedRules ==
    UNION {{CacheView[k][i] : i \in 1..Len(CacheView[k])} : k \in DOMAIN CacheView}

\* C40: when a message arrives, a cached rule with a sourceThreadId is among its
\* candidates only if the message was posted in that very thread (not for a
\* message in the parent channel itself, nor for one in another thread of it),
\* and a cached rule without sourceThreadId is among the candidates of every
\* message posted in its channel or in a thread whose parent is that channel.
C40_ThreadRulesStayInThread ==
    [][\A message \in SiblingMessages :
          inbox' = Append(inbox, message) /\ ~Ignored(message) =>
              LET taken == IF handlers' = handlers THEN <<>>
                           ELSE handlers'[CHOOSE x \in HandlerIds :
                                             handlers'[x] # handlers[x]].taken
                  IsCandidate(f) == \E i \in 1..Len(taken) : taken[i] = f
              IN  \A f \in CachedRules :
                      IF f.sourceThreadId # NULL
                      THEN IsCandidate(f) =>
                              message.isThread /\ message.channel = Val(f.sourceThreadId)
                      ELSE \/ ~message.isThread /\ Some(message.channel) = f.sourceChannel
                           \/ message.isThread /\ message.parentId = f.sourceChannel
                           => IsCandidate(f)]_vars

\* A message posted in one thread is being forwarded by the rule of the channel
\* while the cache holds a rule of the other thread, which is not a candidate
C40_Witness ==
    \E x \in HandlerIds :
        /\ handlers[x].pc = "loop"
        /\ handlers[x].message.isThread
        /\ Len(handlers[x].taken) = 1
        /\ handlers[x].taken[1].sourceThreadId = NULL
        /\ handlers[x].taken[1].sourceChannel = handlers[x].message.parentId
        /\ \E f \in CachedRules :
              /\ f.sourceThreadId # NULL
              /\ f.sourceThreadId # Some(handlers[x].message.channel)
              /\ f.sourceChannel = handlers[x].message.parentId

====
